---- MODULE Spec2Model ----
(***************************************************************************)
(* Steam Price Updater (src/price_updater_plugin.py): the TTL cache, the   *)
(* rate provider, the price calculator, the listing synchronizer, the      *)
(* tracked-item store and the scheduler loop.                              *)
(*                                                                         *)
(* Units.  Money and exchange rates are integers in mills (1/1000 of a     *)
(* currency unit): 1.0 is 1000, the cent 0.01 is 10.  Percent markups are  *)
(* whole percents.  Intermediate values of the price formula are exact     *)
(* fractions <<n, d>>.  round(x, 2) is modelled on exact values (ties go   *)
(* to the even cent); the representation error of binary floats is not     *)
(* modelled.  Clock values are seconds.                                    *)
(***************************************************************************)
EXTENDS Integers, Sequences, FiniteSets, TLC

VARIABLES
    LOTS,            \* the tracked-item map: lot id -> record
    order,           \* the dict's entry array: keys in insertion order, Tomb = dead entry
    FILE,            \* steam_price_updater_lots.json, and whether the last write succeeded
    SETTINGS,        \* the global settings
    now,             \* time.time()
    sched,           \* the scheduler thread (post_start.process)
    lot_last_check,  \* process's local dict lot_last_check
    un,              \* the update-now thread (update_now.update_thread)
    sy,              \* per thread: the frame of its update_lot_price / change_price call
    remote,          \* the remote account: the price stored in each listing
    WIZARD_STATES,   \* the add-lot wizard's state (one operator)
    ops,             \* number of operator actions taken so far
    CACHE,           \* UnifiedCacheManager.cache, in insertion order
    io               \* the log of the direct calls, or the last call of a function

vars == <<LOTS, order, FILE, SETTINGS, now, sched, lot_last_check,
          un, sy, remote, WIZARD_STATES, ops, CACHE, io>>

-----------------------------------------------------------------------------
(* Bounds of the model                                                     *)

MaxTicks == 1        \* the clock advances at most this many times
MaxOps == 1          \* operator actions per behaviour
MaxCalls == 2        \* direct calls of update_lot_price per behaviour
MaxRateTicks == 4    \* quarter hours the rate provider's clock advances
MaxCacheTicks == 3   \* half hours the cache's clock advances
SmallCacheSize == 2  \* max_size of the cache that is filled up to eviction
MaxSteamTicks == 2   \* half hours the clock of the catalog fetches advances
MaxSteamCalls == 2   \* calls of get_steam_price per behaviour
MaxEdits == 2        \* edits of an item's bounds while it is refreshed

(* Program constants                                                       *)

CACHE_TTL == 3600
MAX_CACHE_SIZE == 1000
MAX_RETRIES == 3
RATE_FRESH == 900
Hour == 3600
Cent == 10
None == -1           \* Python's None where a price or a rate is expected

-----------------------------------------------------------------------------
(* Exact arithmetic                                                        *)

RECURSIVE Gcd(_, _)
Gcd(a, b) == IF b = 0 THEN a ELSE Gcd(b, a % b)

\* the fraction n/d (n >= 0, d > 0) in lowest terms
Rat(n, d) == LET g == Gcd(n, d) IN IF g = 0 THEN <<0, 1>> ELSE <<n \div g, d \div g>>
RMul(x, y) == Rat(x[1] * y[1], x[2] * y[2])
RAdd(x, y) == Rat(x[1] * y[2] + y[1] * x[2], x[2] * y[2])
\* x <= y: the integer parts decide, or else the fractional parts
RLe(x, y) ==
    LET xi == x[1] \div x[2]
        yi == y[1] \div y[2]
    IN  IF xi # yi THEN xi < yi
        ELSE (x[1] % x[2]) * y[2] <= (y[1] % y[2]) * x[2]
RMin(x, y) == IF RLe(x, y) THEN x ELSE y
RMax(x, y) == IF RLe(x, y) THEN y ELSE x

\* round(x, 2) of the fraction x, in mills
Round2Rat(x) ==
    LET r1 == (x[1] % x[2]) * 10                \* digit by digit, to keep numbers small
        r2 == (r1 % x[2]) * 10
        q == (x[1] \div x[2]) * 100 + (r1 \div x[2]) * 10 + (r2 \div x[2])
        r == r2 % x[2]
    IN  IF 2 * r > x[2] THEN Cent * (q + 1)
        ELSE IF 2 * r < x[2] THEN Cent * q
        ELSE IF q % 2 = 0 THEN Cent * q ELSE Cent * (q + 1)

\* round(p, 2) of a price p in mills
Round2(p) == Round2Rat(Rat(p, 1000))

Abs(x) == IF x < 0 THEN -x ELSE x
Min2(a, b) == IF a <= b THEN a ELSE b
Max2(a, b) == IF a <= b THEN b ELSE a

-----------------------------------------------------------------------------
(* UnifiedCacheManager.  A cache is a sequence of entries                  *)
(* [key, value, timestamp] in the dict's insertion order.                  *)

CacheKeys(c) == {c[i].key : i \in 1..Len(c)}
CacheIndex(c, k) == CHOOSE i \in 1..Len(c) : c[i].key = k
CacheEntry(c, k) == c[CacheIndex(c, k)]

\* _remove_key
CacheRemoveKey(c, k) == SelectSeq(c, LAMBDA e : e.key # k)

\* a variant of get: an entry is returned whatever its age
CacheGetAnyAge(c, k, t, ttl) ==
    IF k \in CacheKeys(c) THEN <<TRUE, CacheEntry(c, k).value, c>> ELSE <<FALSE, None, c>>

\* get: <<hit, value, cache afterwards>>; an entry of age >= ttl is removed
CacheGet(c, k, t, ttl) ==
    IF k \in CacheKeys(c)
    THEN IF t - CacheEntry(c, k).timestamp < ttl
         THEN <<TRUE, CacheEntry(c, k).value, c>>
         ELSE <<FALSE, None, CacheRemoveKey(c, k)>>
    ELSE <<FALSE, None, c>>

\* a variant of _evict_oldest: the entry of the greatest timestamp is removed
CacheEvictNewest(c) ==
    IF c = <<>> THEN c
    ELSE LET i == CHOOSE i \in 1..Len(c) :
                     /\ \A j \in 1..Len(c) : c[i].timestamp >= c[j].timestamp
                     /\ \A j \in 1..(i - 1) : c[j].timestamp < c[i].timestamp
         IN  CacheRemoveKey(c, c[i].key)

\* _evict_oldest: min() keeps the first of the entries with the least timestamp
CacheEvictOldest(c) ==
    IF c = <<>> THEN c
    ELSE LET i == CHOOSE i \in 1..Len(c) :
                     /\ \A j \in 1..Len(c) : c[i].timestamp <= c[j].timestamp
                     /\ \A j \in 1..(i - 1) : c[j].timestamp > c[i].timestamp
         IN  CacheRemoveKey(c, c[i].key)

\* a variant of set: room is made only once the cache holds more than max_size
CacheSetEvictLate(c, k, v, t, max_size) ==
    LET c1 == IF Len(c) > max_size THEN CacheEvictOldest(c) ELSE c
        e == [key |-> k, value |-> v, timestamp |-> t]
    IN  IF k \in CacheKeys(c1)
        THEN [c1 EXCEPT ![CacheIndex(c1, k)] = e]
        ELSE Append(c1, e)

\* set
CacheSet(c, k, v, t, max_size) ==
    LET c1 == IF Len(c) >= max_size THEN CacheEvictOldest(c) ELSE c
        e == [key |-> k, value |-> v, timestamp |-> t]
    IN  IF k \in CacheKeys(c1)
        THEN [c1 EXCEPT ![CacheIndex(c1, k)] = e]
        ELSE Append(c1, e)

\* clear_by_pattern: a key is <<kind, ...>> and the pattern is a kind's prefix
CacheClearByPattern(c, kind) == SelectSeq(c, LAMBDA e : e.key[1] # kind)

\* clear_expired: every entry of age >= ttl is removed
CacheClearExpired(c, t, ttl) == SelectSeq(c, LAMBDA e : t - e.timestamp < ttl)

-----------------------------------------------------------------------------
(* Rate provider.  A cached rate entry's value is the rate itself (its     *)
(* inner "timestamp" equals the cache entry's).  An upstream answer is a   *)
(* record [status, rate]: "fail" (exception, timeout, status other than    *)
(* 200, unparsable number), "missing" (a 200 answer without the currency)  *)
(* or "ok" with the number it carries, in mills.                           *)

RateKey(currency) == <<"currency_rate", currency>>

StaticRate(currency) ==
    CASE currency = "UAH" -> 41820
      [] currency = "RUB" -> 78420
      [] currency = "KZT" -> 519860
      [] currency = "EUR" -> 850
      [] OTHER -> 1000

\* _get_fallback_rate: <<rate, cache afterwards>>
_get_fallback_rate(c, currency, t) ==
    LET g == CacheGet(c, RateKey(currency), t, CACHE_TTL)
    IN  IF g[1] /\ g[2] > 0 THEN <<g[2], g[3]>>
        ELSE <<StaticRate(currency), g[3]>>

HasSecondary(currency) == currency \in {"RUB", "UAH"}

\* a variant of _get_currency_fallback: the secondary source is never asked
_get_currency_fallback_skip(c, currency, t, secondary) == _get_fallback_rate(c, currency, t)

\* _get_currency_fallback
_get_currency_fallback(c, currency, t, secondary) ==
    IF HasSecondary(currency) /\ secondary.status = "ok"
    THEN <<secondary.rate, CacheSet(c, RateKey(currency), secondary.rate, t, MAX_CACHE_SIZE)>>
    ELSE _get_fallback_rate(c, currency, t)

\* get_currency_rate
get_currency_rate(c, currency, t, primary, secondary) ==
    IF currency = "USD" THEN <<1000, c>>
    ELSE LET g == CacheGet(c, RateKey(currency), t, CACHE_TTL)
         IN  IF g[1] /\ t - CacheEntry(c, RateKey(currency)).timestamp < RATE_FRESH
             THEN <<g[2], g[3]>>
             ELSE IF primary.status = "ok"
                  THEN <<primary.rate,
                         CacheSet(g[3], RateKey(currency), primary.rate, t, MAX_CACHE_SIZE)>>
                  ELSE _get_currency_fallback(g[3], currency, t, secondary)

\* the sources get_currency_rate sends a request to, in the order of the requests
RateContacts(c, currency, t, primary) ==
    IF currency = "USD" THEN <<>>
    ELSE IF CacheGet(c, RateKey(currency), t, CACHE_TTL)[1]
            /\ t - CacheEntry(c, RateKey(currency)).timestamp < RATE_FRESH
    THEN <<>>
    ELSE IF primary.status # "ok" /\ HasSecondary(currency) THEN <<"primary", "secondary">>
    ELSE <<"primary">>

-----------------------------------------------------------------------------
(* Catalog price fetch.  An identifier is a sequence of characters.  An    *)
(* answer of the catalog is [kind, final]: "transport" (the request raises *)
(* or times out), "status" (a status other than 200), "unparsable" (the    *)
(* body is no JSON), "unsuccessful" (no entry for the item, or its success *)
(* flag is false), "noprice" (success without price data) and "priced"     *)
(* (success with price data whose field final is the number given, in      *)
(* cents).                                                                 *)

Digits == {"0", "1", "2", "3", "4", "5", "6", "7", "8", "9"}
Blank == " "

\* str.isdigit
IsDigit(s) == Len(s) > 0 /\ \A i \in 1..Len(s) : s[i] \in Digits

\* str.strip
RECURSIVE Strip(_)
Strip(s) ==
    IF s = <<>> THEN s
    ELSE IF Head(s) = Blank THEN Strip(Tail(s))
    ELSE IF s[Len(s)] = Blank THEN Strip(SubSeq(s, 1, Len(s) - 1))
    ELSE s

\* str.startswith
StartsWith(s, prefix) == Len(s) >= Len(prefix) /\ SubSeq(s, 1, Len(prefix)) = prefix

SubPrefix == <<"s", "u", "b", "_">>
InvalidId == [is_valid |-> FALSE, id_type |-> "", clean_id |-> <<>>]

\* a variant of validate_steam_id: whatever is not empty is an app id
validate_steam_id_lenient(steam_id) ==
    IF Strip(steam_id) = <<>> THEN InvalidId
    ELSE [is_valid |-> TRUE, id_type |-> "app", clean_id |-> Strip(steam_id)]

validate_steam_id(steam_id) ==
    LET id == Strip(steam_id)
    IN  IF id = <<>> THEN InvalidId
        ELSE IF StartsWith(id, SubPrefix)
        THEN LET sub_id_num == SubSeq(id, 5, Len(id))
             IN  IF IsDigit(sub_id_num)
                 THEN [is_valid |-> TRUE, id_type |-> "sub", clean_id |-> sub_id_num]
                 ELSE InvalidId
        ELSE IF IsDigit(id) THEN [is_valid |-> TRUE, id_type |-> "app", clean_id |-> id]
        ELSE InvalidId

SteamKey(steam_id, currency_code) == <<"steam_price", steam_id, currency_code>>

\* variants of the handling of an answer: a failure is cached as 0.0; an item
\* without a positive price is reported and not cached
SteamOutcomeCacheFailure(answer) ==
    IF answer.kind = "priced" /\ answer.final > 0
    THEN [value |-> answer.final * Cent, store |-> TRUE]
    ELSE [value |-> 0, store |-> TRUE]

SteamOutcomeForgetFree(answer) ==
    IF answer.kind = "priced" /\ answer.final > 0
    THEN [value |-> answer.final * Cent, store |-> TRUE]
    ELSE IF answer.kind \in {"priced", "noprice"} THEN [value |-> 0, store |-> FALSE]
    ELSE [value |-> None, store |-> FALSE]

\* what the function makes of the catalog's answer: the value it returns and
\* whether it stores it in the cache
SteamOutcome(answer) ==
    IF answer.kind = "priced" /\ answer.final > 0
    THEN [value |-> answer.final * Cent, store |-> TRUE]
    ELSE IF answer.kind \in {"priced", "noprice"} THEN [value |-> 0, store |-> TRUE]
    ELSE [value |-> None, store |-> FALSE]

\* get_steam_price: the value returned, the cache afterwards, and whether the
\* call read the cache, slept the pacing delay and sent a request
get_steam_price(c, steam_id, currency_code, t, answer) ==
    IF ~validate_steam_id(steam_id).is_valid
    THEN [value |-> None, cache |-> c, accessed |-> FALSE, slept |-> FALSE,
          requested |-> FALSE]
    ELSE LET cache_key == SteamKey(steam_id, currency_code)
             g == CacheGet(c, cache_key, t, CACHE_TTL)
             o == SteamOutcome(answer)
         IN  IF g[1] /\ g[2] # None
             THEN [value |-> g[2], cache |-> g[3], accessed |-> TRUE, slept |-> FALSE,
                   requested |-> FALSE]
             ELSE [value |-> o.value,
                   cache |-> IF o.store
                             THEN CacheSet(g[3], cache_key, o.value, t, MAX_CACHE_SIZE)
                             ELSE g[3],
                   accessed |-> TRUE, slept |-> TRUE, requested |-> TRUE]

-----------------------------------------------------------------------------
(* Price calculator.  S is SETTINGS; rate maps a currency to the value     *)
(* get_currency_rate returns for it during the call.                       *)

DefaultSettings ==
    [currency |-> "USD", time |-> 6 * Hour, first_markup |-> 3, second_markup |-> 5,
     fixed_markup |-> 500, max_price |-> 5000000, min_price |-> 1000]

\* a variant of the rate tests: only the source currency's rate is tested
RateMissingSourceOnly(S, steam_currency, rate) ==
    /\ steam_currency # S.currency
    /\ steam_currency # "USD" /\ rate[steam_currency] <= 0

\* a rate the conversion needs is not positive: the call returns 0.0
RateMissing(S, steam_currency, rate) ==
    /\ steam_currency # S.currency
    /\ \/ steam_currency # "USD" /\ rate[steam_currency] <= 0
       \/ S.currency # "USD" /\ rate[S.currency] <= 0

\* the conversion, the markups, the bounds and the rounding (the second try)
PriceFormula(S, steam_price, steam_currency, rate) ==
    LET account_currency == S.currency
        needSteamRate == steam_currency # account_currency /\ steam_currency # "USD"
        needAccountRate == steam_currency # account_currency /\ account_currency # "USD"
    IN  IF RateMissing(S, steam_currency, rate) THEN 0
        ELSE
        LET price_usd == IF needSteamRate THEN Rat(steam_price, rate[steam_currency])
                         ELSE Rat(steam_price, 1000)
            base_price == IF needAccountRate
                          THEN RMul(price_usd, Rat(rate[account_currency], 1000))
                          ELSE price_usd
            price_with_currency_markup == RMul(base_price, Rat(100 + S.first_markup, 100))
            final_price == RAdd(RMul(price_with_currency_markup, Rat(100 + S.second_markup, 100)),
                                Rat(S.fixed_markup, 1000))
            capped == RMin(final_price, Rat(S.max_price, 1000))
            floored == RMax(capped, Rat(S.min_price, 1000))
        IN  Round2Rat(floored)

\* variants of the calculator: the bounds applied after the rounding with the
\* cap last; the floor guard taken below 0 instead of at a cent or less
calculate_lot_price_cap_last(S, steam_price, steam_currency, rate) ==
    IF steam_price <= Cent THEN S.min_price
    ELSE IF RateMissing(S, steam_currency, rate) THEN 0
    ELSE Min2(Max2(PriceFormula([S EXCEPT !.min_price = 0, !.max_price = 1000000000],
                                steam_price, steam_currency, rate),
                   S.min_price),
              S.max_price)

calculate_lot_price_strict_floor(S, steam_price, steam_currency, rate) ==
    IF steam_price < 0 THEN S.min_price
    ELSE PriceFormula(S, steam_price, steam_currency, rate)

calculate_lot_price(S, steam_price, steam_currency, rate) ==
    IF steam_price <= Cent THEN S.min_price
    ELSE PriceFormula(S, steam_price, steam_currency, rate)

\* the currencies whose rate the call asks get_currency_rate for
RatesConsulted(S, steam_price, steam_currency, rate) ==
    IF steam_price <= Cent \/ steam_currency = S.currency THEN {}
    ELSE IF S.currency = "USD" THEN {steam_currency}
    ELSE IF steam_currency = "USD" THEN {S.currency}
    ELSE IF rate[steam_currency] <= 0 THEN {steam_currency}
    ELSE {steam_currency, S.currency}

\* What can go wrong inside a call: "price", the source price is not a
\* number (float() raises); "rate", get_currency_rate raises; "settings", a
\* markup setting is not a number (the arithmetic raises).
PriceFaults == {"none", "price", "rate", "settings"}

\* a variant of the whole call: an exception inside yields min_price
calculate_lot_price_floor_on_error(S, steam_price, steam_currency, rate, fault) ==
    IF \/ fault = "price"
       \/ fault = "rate" /\ RatesConsulted(S, steam_price, steam_currency, rate) # {}
       \/ fault = "settings" /\ steam_price > Cent /\ ~RateMissing(S, steam_currency, rate)
    THEN [raised |-> TRUE, value |-> S.min_price]
    ELSE [raised |-> FALSE,
          value |-> calculate_lot_price(S, steam_price, steam_currency, rate)]

\* The whole call under a fault: [raised, value], raised telling whether an
\* exception occurred inside; both except clauses return 0.0.
calculate_lot_price_guarded(S, steam_price, steam_currency, rate, fault) ==
    IF \/ fault = "price"
       \/ fault = "rate" /\ RatesConsulted(S, steam_price, steam_currency, rate) # {}
       \/ fault = "settings" /\ steam_price > Cent /\ ~RateMissing(S, steam_currency, rate)
    THEN [raised |-> TRUE, value |-> 0]
    ELSE [raised |-> FALSE,
          value |-> calculate_lot_price(S, steam_price, steam_currency, rate)]

-----------------------------------------------------------------------------
(* Tracked items.  A record keeps a slot for every key the code ever       *)
(* stores in an item dict; "has" is the set of keys the dict really holds. *)

StoreFields == {"on", "steam_id", "steam_currency", "min", "max",
                "last_steam_price", "last_price", "last_update"}
WizardFields == {"steam_id", "steam_currency", "min_price", "max_price", "enabled",
                 "last_update", "last_price"}

NoLot ==
    [has |-> {}, on |-> FALSE, steam_id |-> "", steam_currency |-> "", min |-> 0, max |-> 0,
     min_price |-> 0, max_price |-> 0, enabled |-> FALSE,
     last_steam_price |-> 0, last_price |-> 0, last_update |-> 0]

\* an item as init leaves it after normalization
StoredLot(on, steam_id, currency, min, max) ==
    [NoLot EXCEPT !.has = StoreFields, !.on = on, !.steam_id = steam_id,
                  !.steam_currency = currency, !.min = min, !.max = max]

\* lot_data.get("on", False)
LotOn(d) == "on" \in d.has /\ d.on

\* a validation that does not compare the two bounds
validate_lot_data_unordered(d) ==
    /\ {"steam_id", "steam_currency", "min", "max"} \subseteq d.has
    /\ d.steam_id # ""
    /\ ~(d.min <= 0 \/ d.max <= 0)

\* validate_lot_data(lot_data)
validate_lot_data(d) ==
    /\ {"steam_id", "steam_currency", "min", "max"} \subseteq d.has
    /\ d.steam_id # ""
    /\ ~(d.min <= 0 \/ d.max <= 0 \/ d.min > d.max)

Keys(m) == DOMAIN m
Tomb == ""

\* a map that keeps the key it is asked to delete
MapKeep(m, k) == m

\* del m[k], and the entry array afterwards: CPython leaves a dead entry, which
\* only a running iteration can tell from a removed one
MapDel(m, k) == [x \in Keys(m) \ {k} |-> m[x]]
OrderDel(o, k, iterating) ==
    IF iterating THEN [i \in 1..Len(o) |-> IF o[i] = k THEN Tomb ELSE o[i]]
    ELSE SelectSeq(o, LAMBDA x : x # k)
\* m[k] = v
MapSet(m, k, v) == [x \in Keys(m) \cup {k} |-> IF x = k THEN v ELSE m[x]]
OrderSet(o, m, k) == IF k \in Keys(m) THEN o ELSE Append(o, k)

\* LOTS.update(file_lots): a key LOTS lacks is appended, in the file's order
RECURSIVE OrderUpdate(_, _, _)
OrderUpdate(o, m, ks) ==
    IF ks = <<>> THEN o
    ELSE OrderUpdate(IF Head(ks) \in Keys(m) THEN o ELSE Append(o, Head(ks)), m, Tail(ks))
MapUpdate(m, f) == [x \in Keys(m) \cup Keys(f) |-> IF x \in Keys(f) THEN f[x] ELSE m[x]]

-----------------------------------------------------------------------------
(* The frame of one update_lot_price call (with the change_price call it   *)
(* makes).  lot_data is a reference to the item dict: objkey is the key    *)
(* under which that dict is in LOTS now, or Tomb once it is no longer in   *)
(* LOTS, and then dcopy is what the dict holds.                            *)

Threads == {"sched", "now", "single"}

IdleFrame ==
    [pc |-> "idle", lot_id |-> Tomb, objkey |-> Tomb, dcopy |-> NoLot,
     steam_currency |-> "", steam_price |-> None, attempts |-> 0, slept |-> 0,
     lot_min |-> 0, lot_max |-> 0, new_price |-> 0, old_price |-> 0, looks |-> 0,
     result |-> FALSE, saves |-> 0, writes |-> 0, outcome |-> "none"]

\* the dict lot_data refers to
LotData(f) == IF f.objkey # Tomb THEN LOTS[f.objkey] ELSE f.dcopy

\* the frames after the dicts under the keys K left LOTS
Detach(frames, K) ==
    [t \in Threads |->
        IF frames[t].objkey # Tomb /\ frames[t].objkey \in K
        THEN [frames[t] EXCEPT !.objkey = Tomb, !.dcopy = LOTS[frames[t].objkey]]
        ELSE frames[t]]

\* the frames after LOTS[k2] = LOTS[k]; del LOTS[k]
Rekey(frames, k, k2) ==
    [t \in Threads |->
        IF frames[t].objkey = k THEN [frames[t] EXCEPT !.objkey = k2] ELSE frames[t]]

\* a frame that has returned, or no longer reads lot_data, holds no reference;
\* its loop counters and its bounds are gone
Return(f, result, outcome) ==
    [f EXCEPT !.pc = "ret", !.result = result, !.outcome = outcome,
              !.objkey = Tomb, !.dcopy = NoLot, !.attempts = 0, !.slept = 0,
              !.lot_min = 0, !.lot_max = 0]

\* the return of a call whose retry loop ran out: its counters have one value
\* each and stay in the frame
ReturnNoPrice(g) ==
    [Return(g, FALSE, "noprice") EXCEPT !.attempts = g.attempts, !.slept = g.slept]

\* update_lot_price(lot_id, lot_data, cardinal) up to its first fetch: the frame
\* of a call with the dict that is under key in LOTS
CallFrame(lot_id, key) ==
    LET f == [IdleFrame EXCEPT !.lot_id = lot_id, !.objkey = key]
    IN  IF ~validate_lot_data(LOTS[key]) THEN Return(f, FALSE, "invalid")
        ELSE [f EXCEPT !.pc = "fetch", !.steam_currency = LOTS[key].steam_currency]

-----------------------------------------------------------------------------
(* The environment's answers                                               *)

Currencies == {"UAH", "KZT", "RUB", "USD", "EUR"}
AllIds == {"1", "2", "3"}

\* get_steam_price: None (fetch failed), 0.0 (no price) or a price; remote.steam
\* is the set of the answers it can give in this behaviour
SteamAnswers == {None, 0, 20, 10000}
\* what get_currency_rate returns during one calculation: rates near the
\* market's, or the 0.0 of an upstream answer that carries it
MarketRate(currency) ==
    CASE currency = "UAH" -> 40000
      [] currency = "RUB" -> 80000
      [] currency = "KZT" -> 500000
      [] currency = "EUR" -> 800
      [] OTHER -> 1000
RateTables == {[c \in Currencies |-> MarketRate(c)], [c \in Currencies |-> 0]}
\* get_lot_fields: the listing, a not-found error, another error, None or a
\* listing without a price attribute, a listing whose price is None
FieldAnswers == {"ok", "notfound", "error", "nofields", "nooldprice"}
SaveAnswers == {"ok", "raise"}

\* the live entries of an entry array
Compact(o) == SelectSeq(o, LAMBDA x : x # Tomb)

\* save_to_file(LOTS, ...): the file afterwards
Persist(ok, m, o) ==
    IF ok THEN [lots |-> m, keys |-> Compact(o), ok |-> TRUE]
    ELSE [FILE EXCEPT !.ok = FALSE]

Iterating == sched.pc # "idle"

-----------------------------------------------------------------------------
(* update_lot_price and change_price, step by step.  A step ends where the *)
(* thread blocks: a fetch, the rate lookups, get_lot_fields, the pause     *)
(* after it, save_lot; and where change_price returns after a write.       *)

\* lot_data.get("min", SETTINGS["min_price"]), lot_data.get("max", SETTINGS["max_price"])
LotMin(d, S) == IF "min" \in d.has THEN d.min ELSE S.min_price
LotMax(d, S) == IF "max" \in d.has THEN d.max ELSE S.max_price

\* update_lot_price's clamp to the item's own bounds
ItemClamp(d, S, p) == Max2(LotMin(d, S), Min2(p, LotMax(d, S)))

\* a comparison of the prices as they are, against one cent
PriceDiffersRaw(new_price, old_price) == Abs(new_price - old_price) >= Cent
\* a comparison that always asks for an update
PriceDiffersAlways(new_price, old_price) == new_price = new_price

\* change_price's test for a needed update
PriceDiffers(new_price, old_price) == Abs(Round2(new_price) - Round2(old_price)) >= 5

\* change_price's record of a write
RecordWrite(m, id, new_price, t) ==
    IF id \in Keys(m)
    THEN [m EXCEPT ![id] = [@ EXCEPT !.last_price = new_price, !.last_update = t,
                                     !.has = @ \cup {"last_price", "last_update"}]]
    ELSE m

\* update_lot_price's record of a successful sync (id is in m)
RecordSync(m, id, steam_price, t) ==
    [m EXCEPT ![id] = [@ EXCEPT !.last_steam_price = steam_price, !.last_update = t,
                                !.has = @ \cup {"last_steam_price", "last_update"}]]

\* the retry loop's body with a pause after every attempt that found no price
AttemptPauseAlways(f, r) ==
    LET g == [f EXCEPT !.attempts = @ + 1, !.steam_price = r]
    IN  IF r > 0 THEN [g EXCEPT !.pc = "calc"]
        ELSE IF g.attempts < MAX_RETRIES THEN [g EXCEPT !.slept = @ + 1]
        ELSE ReturnNoPrice([g EXCEPT !.slept = @ + 1])

\* the retry loop's body and the test after it taking the price 0.0 for a price
AttemptZeroPasses(f, r) ==
    LET g == [f EXCEPT !.attempts = @ + 1, !.steam_price = r]
    IN  IF r >= 0 THEN [g EXCEPT !.pc = "calc"]
        ELSE IF g.attempts < MAX_RETRIES THEN [g EXCEPT !.slept = @ + 1]
        ELSE ReturnNoPrice(g)

\* the retry loop's body for the answer r of get_steam_price, and the test
\* after the loop: the frame at the next attempt, at the calculation, or returned
Attempt(f, r) ==
    LET g == [f EXCEPT !.attempts = @ + 1, !.steam_price = r]
    IN  IF r > 0 THEN [g EXCEPT !.pc = "calc"]
        ELSE IF g.attempts < MAX_RETRIES THEN [g EXCEPT !.slept = @ + 1]
        ELSE ReturnNoPrice(g)

\* one attempt of the retry loop
SyFetch(t) ==
    /\ sy[t].pc = "fetch"
    /\ \E r \in remote.steam : sy' = [sy EXCEPT ![t] = Attempt(sy[t], r)]
    /\ UNCHANGED <<LOTS, order, FILE, SETTINGS, now, sched, lot_last_check, un, remote,
                   WIZARD_STATES, ops, CACHE, io>>

\* calculate_lot_price, the item clamp and change_price's look into LOTS
SyCalc(t) ==
    /\ sy[t].pc = "calc"
    /\ \E rate \in RateTables :
          LET f == sy[t]
              p == calculate_lot_price(SETTINGS, f.steam_price, f.steam_currency, rate)
              g == [f EXCEPT !.lot_min = LotMin(LotData(f), SETTINGS),
                             !.lot_max = LotMax(LotData(f), SETTINGS),
                             !.new_price = ItemClamp(LotData(f), SETTINGS, p),
                             !.objkey = Tomb, !.dcopy = NoLot]
          IN  sy' = [sy EXCEPT ![t] =
                        IF p <= 0 THEN Return(f, FALSE, "calcfail")
                        ELSE IF f.lot_id \notin Keys(LOTS) THEN Return(g, FALSE, "absent")
                        ELSE [g EXCEPT !.pc = "fields"]]
    /\ UNCHANGED <<LOTS, order, FILE, SETTINGS, now, sched, lot_last_check, un, remote,
                   WIZARD_STATES, ops, CACHE, io>>

\* get_lot_fields answers; an item whose listing is gone is pruned and the store saved
SyFields(t) ==
    /\ sy[t].pc = "fields"
    /\ \E a \in FieldAnswers, ok \in BOOLEAN :
          LET f == [sy[t] EXCEPT !.looks = @ + 1]
              id == f.lot_id
          IN  IF a \in {"notfound", "nofields"} /\ id \in Keys(LOTS)
              THEN /\ LOTS' = MapDel(LOTS, id)
                   /\ order' = OrderDel(order, id, Iterating)
                   /\ FILE' = Persist(ok, LOTS', order')
                   /\ sy' = [Detach(sy, {id}) EXCEPT
                                ![t] = Return([f EXCEPT !.saves = @ + 1], FALSE, a)]
              ELSE /\ sy' = [sy EXCEPT ![t] =
                                IF a = "ok"
                                THEN [f EXCEPT !.pc = "cmp", !.old_price = remote.price[id]]
                                ELSE Return(f, FALSE, a)]
                   /\ UNCHANGED <<LOTS, order, FILE>>
    /\ UNCHANGED <<SETTINGS, now, sched, lot_last_check, un, remote,
                   WIZARD_STATES, ops, CACHE, io>>

\* after the pause: the comparison with the remote price
SyCompare(t) ==
    /\ sy[t].pc = "cmp"
    /\ LET f == sy[t]
           id == f.lot_id
       IN  IF PriceDiffers(f.new_price, f.old_price)
           THEN /\ sy' = [sy EXCEPT ![t] =
                             IF remote.save_lot THEN [f EXCEPT !.pc = "save", !.writes = @ + 1]
                             ELSE Return(f, FALSE, "unavailable")]
                /\ LOTS' = LOTS
           ELSE IF id \in Keys(LOTS)
                THEN /\ LOTS' = RecordSync(LOTS, id, f.steam_price, now)
                     /\ sy' = [sy EXCEPT ![t] = Return(f, TRUE, "unchanged")]
                ELSE /\ LOTS' = LOTS
                     /\ sy' = [sy EXCEPT ![t] = Return(f, FALSE, "keyerror")]
    /\ UNCHANGED <<order, FILE, SETTINGS, now, sched, lot_last_check, un, remote,
                   WIZARD_STATES, ops, CACHE, io>>

\* a record of the write made whatever save_lot answered
SaveRecordAlways(m, f, a, t) == RecordWrite(m, f.lot_id, f.new_price, t)

\* the items after save_lot answered a: change_price's record follows a
\* save_lot call that returned
SaveRecord(m, f, a, t) ==
    IF a = "ok" THEN RecordWrite(m, f.lot_id, f.new_price, t) ELSE m

\* save_lot returns or raises; after it change_price records the write and
\* returns True
SySave(t) ==
    /\ sy[t].pc = "save"
    /\ \E a \in SaveAnswers :
          LET f == sy[t]
              id == f.lot_id
          IN  /\ LOTS' = SaveRecord(LOTS, f, a, now)
              /\ IF a = "ok"
                 THEN /\ remote' = [remote EXCEPT !.price[id] = f.new_price]
                      /\ sy' = [sy EXCEPT ![t] = [f EXCEPT !.pc = "record"]]
                 ELSE /\ sy' = [sy EXCEPT ![t] = Return(f, FALSE, "savefailed")]
                      /\ remote' = remote
    /\ UNCHANGED <<order, FILE, SETTINGS, now, sched, lot_last_check, un,
                   WIZARD_STATES, ops, CACHE, io>>

\* back in update_lot_price after a write: its own record of the sync.  The
\* two functions' records are separate steps: no lock keeps another thread
\* from running between them.
SyRecord(t) ==
    /\ sy[t].pc = "record"
    /\ LET f == sy[t]
           id == f.lot_id
       IN  IF id \in Keys(LOTS)
           THEN /\ LOTS' = RecordSync(LOTS, id, f.steam_price, now)
                /\ sy' = [sy EXCEPT ![t] = Return(f, TRUE, "updated")]
           ELSE /\ LOTS' = LOTS
                /\ sy' = [sy EXCEPT ![t] = Return(f, FALSE, "keyerror")]
    /\ UNCHANGED <<order, FILE, SETTINGS, now, sched, lot_last_check, un, remote,
                   WIZARD_STATES, ops, CACHE, io>>

-----------------------------------------------------------------------------
(* The scheduler loop, post_start.process.  A pass iterates LOTS.items():  *)
(* "it" is the iterator's place in the entry array and "used" the size the *)
(* dict had when the iteration began.  due0 and handed are history: the    *)
(* items that were enabled and due when the pass began, and the items the  *)
(* pass handed to update_lot_price, in order; aborted, that the pass ended *)
(* in the outer except; ownprune, that a sync of this pass pruned an item. *)
(* The store holds few enough entries that its entry array is never       *)
(* rebuilt while a pass runs.                                              *)

IdleSched ==
    [pc |-> "idle", it |-> 0, used |-> 0, left |-> 0, current_time |-> 0, any |-> FALSE,
     due0 |-> {}, handed |-> <<>>, aborted |-> FALSE, ownprune |-> FALSE,
     saved |-> FALSE]

\* a variant of the loop body's tests: every enabled item is taken
SelectedEnabled(id, d, current_time, last_check, S) == ~(id = "0" \/ ~LotOn(d))

\* the loop body's two tests: the item is enabled and due
Selected(id, d, current_time, last_check, S) ==
    /\ ~(id = "0" \/ ~LotOn(d))
    /\ ~(current_time - last_check[id] < S.time)

\* the dict iterator from place "it" on, with "left" items still expected: it
\* passes the entries the loop body skips and stops at the first one the body
\* does not skip ("item"), at the end of the entry array ("end"), or at a live
\* entry it did not expect ("raise", dictionary keys changed during iteration)
RECURSIVE IterNext(_, _, _, _, _, _, _)
IterNext(o, it, left, m, current_time, last_check, S) ==
    LET J == {j \in (it + 1)..Len(o) : o[j] # Tomb}
        j == CHOOSE j \in J : \A k \in J : j <= k
    IN  IF J = {} THEN [kind |-> "end", it |-> it, left |-> left]
        ELSE IF left = 0 THEN [kind |-> "raise", it |-> it, left |-> left]
        ELSE IF Selected(o[j], m[o[j]], current_time, last_check, S)
        THEN [kind |-> "item", it |-> j, left |-> left - 1]
        ELSE IterNext(o, j, left - 1, m, current_time, last_check, S)

\* the loop wakes: current_time = time.time(), the for statement takes its iterator
SchedWake ==
    /\ sched.pc = "idle"
    /\ sched' = [IdleSched EXCEPT
                    !.pc = "iter", !.used = Cardinality(Keys(LOTS)),
                    !.left = Cardinality(Keys(LOTS)), !.current_time = now,
                    !.due0 = {id \in Keys(LOTS) :
                                 Selected(id, LOTS[id], now, lot_last_check, SETTINGS)}]
    /\ UNCHANGED <<LOTS, order, FILE, SETTINGS, now, lot_last_check, un, sy, remote,
                   WIZARD_STATES, ops, CACHE, io>>

\* the pass is ready for the iterator's next item
SchedReady == IF sched.pc = "sync" THEN sy["sched"].pc = "ret" ELSE sched.pc = "iter"

\* a loop that a RuntimeError of its for statement ends
PassEndUncaught(kind) == IF kind = "raise" THEN "dead" ELSE "idle"

\* where the loop is once its for statement has ended, by the end of the
\* iteration or by a RuntimeError that the outer except catches: in its pause
PassEnd(kind) == "idle"

\* the for statement asks its iterator for the next item: RuntimeError when the
\* dict changed (the outer except ends the pass), else the next selected item is
\* handed to update_lot_price, else the pass ends and saves if it processed an item
SchedStep ==
    /\ SchedReady
    /\ \E ok \in BOOLEAN :
          LET n == IterNext(order, sched.it, sched.left, LOTS, sched.current_time,
                            lot_last_check, SETTINGS)
              id == order[n.it]
              cut == IF sy["sched"].saves > 0 THEN TRUE ELSE sched.ownprune
          IN  IF Cardinality(Keys(LOTS)) # sched.used \/ n.kind = "raise"
              THEN /\ sched' = [sched EXCEPT !.pc = PassEnd("raise"), !.aborted = TRUE,
                                             !.ownprune = cut]
                   /\ sy' = [sy EXCEPT !["sched"] = IdleFrame]
                   /\ order' = Compact(order)
                   /\ UNCHANGED <<lot_last_check, FILE>>
              ELSE IF n.kind = "end"
              THEN /\ sched' = [sched EXCEPT !.pc = PassEnd("end"), !.saved = sched.any,
                                             !.ownprune = cut]
                   /\ sy' = [sy EXCEPT !["sched"] = IdleFrame]
                   /\ FILE' = IF sched.any THEN Persist(ok, LOTS, order) ELSE FILE
                   /\ order' = Compact(order)
                   /\ UNCHANGED lot_last_check
              ELSE /\ lot_last_check' = [lot_last_check EXCEPT ![id] = sched.current_time]
                   /\ sched' = [sched EXCEPT !.pc = "sync", !.it = n.it, !.left = n.left,
                                             !.any = TRUE, !.handed = Append(@, id),
                                             !.ownprune = cut]
                   /\ sy' = [sy EXCEPT !["sched"] = CallFrame(id, id)]
                   /\ UNCHANGED <<FILE, order>>
    /\ UNCHANGED <<LOTS, SETTINGS, now, un, remote, WIZARD_STATES, ops, CACHE, io>>

\* time passes
Tick ==
    /\ now < (24 + MaxTicks) * Hour
    /\ now' = now + Hour
    /\ UNCHANGED <<LOTS, order, FILE, SETTINGS, sched, lot_last_check, un, sy, remote,
                   WIZARD_STATES, ops, CACHE, io>>

-----------------------------------------------------------------------------
(* The threads the operator starts                                         *)

IdleUn == [pc |-> "idle", active |-> <<>>, i |-> 0]

\* update_now: the handler lists the enabled items and starts update_thread
update_now ==
    /\ ops < MaxOps
    /\ un.pc = "idle"
    /\ LET active_lots == SelectSeq(order, LAMBDA k : k # Tomb /\ LotOn(LOTS[k]) /\ k # "0")
       IN  /\ active_lots # <<>>
           /\ un' = [pc |-> "run", active |-> active_lots, i |-> 1]
    /\ ops' = ops + 1
    /\ UNCHANGED <<LOTS, order, FILE, SETTINGS, now, sched, lot_last_check, sy, remote,
                   WIZARD_STATES, CACHE, io>>

\* update_thread's loop: the next item's sync begins (LOTS[lot_id] raises KeyError
\* for an item that is gone, and the loop goes on); after the last one, save_lots()
UnStep ==
    /\ un.pc = "run"
    /\ sy["now"].pc \in {"idle", "ret"}
    /\ \E ok \in BOOLEAN :
          IF un.i > Len(un.active)
          THEN /\ FILE' = Persist(ok, LOTS, order)
               /\ un' = IdleUn
               /\ sy' = [sy EXCEPT !["now"] = IdleFrame]
          ELSE /\ un' = [un EXCEPT !.i = @ + 1]
               /\ sy' = [sy EXCEPT !["now"] =
                            IF un.active[un.i] \in Keys(LOTS)
                            THEN CallFrame(un.active[un.i], un.active[un.i])
                            ELSE IdleFrame]
               /\ FILE' = FILE
    /\ UNCHANGED <<LOTS, order, SETTINGS, now, sched, lot_last_check, remote,
                   WIZARD_STATES, ops, CACHE, io>>

\* update_single_lot: the handler takes LOTS[lot_id] and starts update_thread
update_single_lot(id) ==
    /\ ops < MaxOps
    /\ sy["single"].pc = "idle"
    /\ id \in Keys(LOTS)
    /\ LotOn(LOTS[id])
    /\ sy' = [sy EXCEPT !["single"] = CallFrame(id, id)]
    /\ ops' = ops + 1
    /\ UNCHANGED <<LOTS, order, FILE, SETTINGS, now, sched, lot_last_check, un, remote,
                   WIZARD_STATES, CACHE, io>>

\* update_single_lot's update_thread ends: it reports, and saves nothing
UsFinish ==
    /\ sy["single"].pc = "ret"
    /\ sy' = [sy EXCEPT !["single"] = IdleFrame]
    /\ UNCHANGED <<LOTS, order, FILE, SETTINGS, now, sched, lot_last_check, un, remote,
                   WIZARD_STATES, ops, CACHE, io>>

-----------------------------------------------------------------------------
(* The operator's handlers.  Each is one action: the handler runs to its   *)
(* end, the menu it finally shows included.                                *)

EditValues == {0, 2000}
WizardMinPrices == {1000, 3090}
WizardMaxPrices == {5000}

\* the reload at the top of open_settings and show_lots_menu:
\* LOTS.update(file_lots) puts a new dict under every key of the file
ReloadLots(m, file) == MapUpdate(m, file.lots)
ReloadOrder(o, m, file) == OrderUpdate(o, m, file.keys)

open_settings ==
    /\ ops < MaxOps
    /\ LOTS' = ReloadLots(LOTS, FILE)
    /\ order' = ReloadOrder(order, LOTS, FILE)
    /\ sy' = Detach(sy, Keys(LOTS) \cap Keys(FILE.lots))
    /\ ops' = ops + 1
    /\ UNCHANGED <<FILE, SETTINGS, now, sched, lot_last_check, un, remote,
                   WIZARD_STATES, CACHE, io>>

show_lots_menu ==
    /\ ops < MaxOps
    /\ LOTS' = ReloadLots(LOTS, FILE)
    /\ order' = ReloadOrder(order, LOTS, FILE)
    /\ sy' = Detach(sy, Keys(LOTS) \cap Keys(FILE.lots))
    /\ ops' = ops + 1
    /\ UNCHANGED <<FILE, SETTINGS, now, sched, lot_last_check, un, remote,
                   WIZARD_STATES, CACHE, io>>

\* delete_lot_confirm: del LOTS[lot_id]; save_lots(); show_lots_menu(call)
delete_lot_confirm(id) ==
    /\ ops < MaxOps
    /\ id \in Keys(LOTS)
    /\ \E ok \in BOOLEAN :
          LET m == MapDel(LOTS, id)
              o == OrderDel(order, id, Iterating)
          IN  /\ FILE' = Persist(ok, m, o)
              /\ LOTS' = ReloadLots(m, FILE')
              /\ order' = ReloadOrder(o, m, FILE')
              /\ sy' = Detach(sy, {id} \cup (Keys(LOTS) \cap Keys(FILE'.lots)))
    /\ ops' = ops + 1
    /\ UNCHANGED <<SETTINGS, now, sched, lot_last_check, un, remote,
                   WIZARD_STATES, CACHE, io>>

\* to_delete: del LOTS[n]; save_lots(); open_settings(call)
to_delete(id) ==
    /\ ops < MaxOps
    /\ id \in Keys(LOTS)
    /\ \E ok \in BOOLEAN :
          LET m == MapDel(LOTS, id)
              o == OrderDel(order, id, Iterating)
          IN  /\ FILE' = Persist(ok, m, o)
              /\ LOTS' = ReloadLots(m, FILE')
              /\ order' = ReloadOrder(o, m, FILE')
              /\ sy' = Detach(sy, {id} \cup (Keys(LOTS) \cap Keys(FILE'.lots)))
    /\ ops' = ops + 1
    /\ UNCHANGED <<SETTINGS, now, sched, lot_last_check, un, remote,
                   WIZARD_STATES, CACHE, io>>

\* a handler that changes fields of LOTS[id] to the record d and calls save_lots()
UpdateField(id, d) ==
    /\ ops < MaxOps
    /\ id \in Keys(LOTS)
    /\ LOTS' = [LOTS EXCEPT ![id] = d]
    /\ \E ok \in BOOLEAN : FILE' = Persist(ok, LOTS', order)
    /\ ops' = ops + 1
    /\ UNCHANGED <<order, SETTINGS, now, sched, lot_last_check, un, sy, remote,
                   WIZARD_STATES, CACHE, io>>

\* toggle_lot_status
toggle_lot_status(id) ==
    /\ id \in Keys(LOTS)
    /\ UpdateField(id, [LOTS[id] EXCEPT !.on = ~LotOn(LOTS[id]), !.has = @ \cup {"on"}])

\* edited, key "min" or "max": LOTS[n][key] = float(text)
edited_min(id, value) ==
    /\ id \in Keys(LOTS)
    /\ UpdateField(id, [LOTS[id] EXCEPT !.min = value, !.has = @ \cup {"min"}])

edited_max(id, value) ==
    /\ id \in Keys(LOTS)
    /\ UpdateField(id, [LOTS[id] EXCEPT !.max = value, !.has = @ \cup {"max"}])

\* edited, key "steam_app_id": a new source id
edited_steam_app_id(id, steam_id) ==
    /\ id \in Keys(LOTS)
    /\ UpdateField(id, [LOTS[id] EXCEPT !.steam_id = steam_id, !.has = @ \cup {"steam_id"}])

NextSteamCurrency(c) ==
    CASE c = "UAH" -> "KZT"
      [] c = "KZT" -> "RUB"
      [] c = "RUB" -> "USD"
      [] c = "USD" -> "UAH"
      [] OTHER -> "UAH"

\* switch_steam_currency
switch_steam_currency(id) ==
    /\ id \in Keys(LOTS)
    /\ UpdateField(id, [LOTS[id] EXCEPT
                           !.steam_currency = NextSteamCurrency(
                               IF "steam_currency" \in LOTS[id].has
                               THEN LOTS[id].steam_currency ELSE "UAH"),
                           !.has = @ \cup {"steam_currency"}])

\* edited, key "lot_id": LOTS[new_lot_id] = LOTS[n]; del LOTS[n]; save_lots()
edited_lot_id(n, new_lot_id) ==
    /\ ops < MaxOps
    /\ n \in Keys(LOTS)
    /\ ~(new_lot_id # n /\ new_lot_id \in Keys(LOTS))
    /\ LOTS' = IF new_lot_id # n THEN MapDel(MapSet(LOTS, new_lot_id, LOTS[n]), n) ELSE LOTS
    /\ order' = IF new_lot_id # n
                THEN OrderDel(OrderSet(order, LOTS, new_lot_id), n, Iterating) ELSE order
    /\ sy' = Rekey(sy, n, new_lot_id)
    /\ \E ok \in BOOLEAN : FILE' = Persist(ok, LOTS', order')
    /\ ops' = ops + 1
    /\ UNCHANGED <<SETTINGS, now, sched, lot_last_check, un, remote,
                   WIZARD_STATES, CACHE, io>>

\* handle_wizard_input, step "lot_id": the id must be new
wizard_lot_id(id) ==
    /\ ops < MaxOps
    /\ WIZARD_STATES = Tomb
    /\ id \notin Keys(LOTS)
    /\ WIZARD_STATES' = id
    /\ UNCHANGED <<LOTS, order, FILE, SETTINGS, now, sched, lot_last_check, un, sy, remote,
                   ops, CACHE, io>>

\* the item handle_wizard_input stores
WizardLot(steam_id, currency, min_price, max_price) ==
    [NoLot EXCEPT !.has = WizardFields, !.steam_id = steam_id, !.steam_currency = currency,
                  !.min_price = min_price, !.max_price = max_price, !.enabled = TRUE]

\* handle_wizard_input, step "max_price": LOTS[lot_id] = lot_data; save_lots()
wizard_max_price ==
    /\ ops < MaxOps
    /\ WIZARD_STATES # Tomb
    /\ \E min_price \in WizardMinPrices, max_price \in WizardMaxPrices, ok \in BOOLEAN :
          /\ ~(max_price <= min_price)
          /\ LOTS' = MapSet(LOTS, WIZARD_STATES, WizardLot("730", "UAH", min_price, max_price))
          /\ order' = OrderSet(order, LOTS, WIZARD_STATES)
          /\ FILE' = Persist(ok, LOTS', order')
    /\ sy' = Detach(sy, {WIZARD_STATES} \cap Keys(LOTS))
    /\ WIZARD_STATES' = Tomb
    /\ ops' = ops + 1
    /\ UNCHANGED <<SETTINGS, now, sched, lot_last_check, un, remote, CACHE, io>>

-----------------------------------------------------------------------------
(* The store with its tasks: the scheduler, the operator's handlers and    *)
(* the threads they start.  init has loaded, normalized and saved two      *)
(* enabled items; no item has been checked yet.                            *)

StoreSettings == [DefaultSettings EXCEPT !.time = Hour]
InitLots == [id \in {"1", "2"} |-> StoredLot(TRUE, "730", "USD", 1000, 5000000)]

InitTasks ==
    /\ sched = IdleSched
    /\ lot_last_check = [id \in AllIds |-> 0]
    /\ un = IdleUn
    /\ sy = [t \in Threads |-> IdleFrame]
    /\ WIZARD_STATES = Tomb
    /\ ops = 0

Init ==
    /\ LOTS = InitLots
    /\ order = <<"1", "2">>
    /\ FILE = [lots |-> InitLots, keys |-> <<"1", "2">>, ok |-> TRUE]
    /\ SETTINGS = StoreSettings
    /\ now = 24 * Hour
    /\ InitTasks
    /\ remote = [price |-> [id \in AllIds |-> 5000], save_lot |-> TRUE,
                 steam |-> {None, 0, 10000}]
    /\ CACHE = <<>>
    /\ io = <<>>

Next ==
    \/ SchedWake
    \/ SchedStep
    \/ Tick
    \/ \E t \in Threads : SyFetch(t)
    \/ \E t \in Threads : SyCalc(t)
    \/ \E t \in Threads : SyFields(t)
    \/ \E t \in Threads : SyCompare(t)
    \/ \E t \in Threads : SySave(t)
    \/ \E t \in Threads : SyRecord(t)
    \/ update_now
    \/ UnStep
    \/ \E id \in AllIds : update_single_lot(id)
    \/ UsFinish
    \/ open_settings
    \/ show_lots_menu
    \/ \E id \in AllIds : delete_lot_confirm(id)
    \/ \E id \in AllIds : to_delete(id)
    \/ \E id \in AllIds : toggle_lot_status(id)
    \/ \E id \in AllIds, value \in EditValues : edited_min(id, value)
    \/ \E id \in AllIds, value \in EditValues : edited_max(id, value)
    \/ \E id \in AllIds : edited_steam_app_id(id, "570")
    \/ \E id \in AllIds : switch_steam_currency(id)
    \/ \E n \in AllIds, new_lot_id \in AllIds : edited_lot_id(n, new_lot_id)
    \/ \E id \in AllIds : wizard_lot_id(id)
    \/ wizard_max_price

Spec == Init /\ [][Next]_vars

(* The scheduler alone: no operator, no other thread                       *)

NextSched ==
    \/ SchedWake
    \/ SchedStep
    \/ Tick
    \/ SyFetch("sched")
    \/ SyCalc("sched")
    \/ SyFields("sched")
    \/ SyCompare("sched")
    \/ SySave("sched")
    \/ SyRecord("sched")

SpecSched == Init /\ [][NextSched]_vars

-----------------------------------------------------------------------------
(* Properties of the scheduler and the store                               *)

Count(seq, x) == Cardinality({i \in 1..Len(seq) : seq[i] = x})

\* C1: when a pass of the scheduler loop has ended, every item that was enabled
\* and due when the pass began has been handed to update_lot_price exactly once
\* in that pass, whatever the other items' syncs did (a prune included).
C1_CycleComplete ==
    sched.pc = "idle" => \A id \in sched.due0 : Count(sched.handed, id) = 1

\* C2: no pass of the scheduler is ended by a RuntimeError of the iteration over
\* LOTS that another task's change of the map caused.
C2_TraversalSerialized == ~(sched.aborted /\ ~sched.ownprune)

Quiescent ==
    /\ sched.pc = "idle"
    /\ un.pc = "idle"
    /\ \A t \in Threads : sy[t].pc = "idle"

\* C6: once every operation that changed LOTS has finished and the last write of
\* the file succeeded, the file holds what LOTS holds.
C6_Durable == (Quiescent /\ FILE.ok) => FILE.lots = LOTS

\* C7: opening the main menu or the lots menu leaves LOTS as it is: no item
\* record is replaced by, and no item re-added from, the file's contents.
C7_MemoryAuthority == [][(open_settings \/ show_lots_menu) => LOTS' = LOTS]_vars

\* the step in which get_lot_fields raises the not-found error in thread t
Pruned(t) == sy[t].pc = "fields" /\ sy'[t].pc = "ret" /\ sy'[t].outcome = "notfound"

\* C5 as stated: a sync whose get_lot_fields raises a not-found error removes the
\* item from LOTS, persists the store exactly once, reports failure and issues
\* no remote write.
C5_ListingGone ==
    [][\A t \in Threads :
          Pruned(t) =>
              /\ sy[t].lot_id \notin Keys(LOTS')
              /\ sy'[t].saves = 1
              /\ ~sy'[t].result
              /\ sy'[t].writes = 0 /\ remote' = remote]_vars

\* C5, amended: when the not-found error is raised for an item that is still in
\* LOTS, the sync removes it and calls save_to_file once, so that the file holds
\* LOTS if the write succeeds; when another task has removed the item meanwhile,
\* the sync changes neither LOTS nor the file.  Either way it reports failure
\* and issues no remote write.
C5_ListingGoneTracked ==
    [][\A t \in Threads :
          Pruned(t) =>
              /\ sy[t].lot_id \notin Keys(LOTS')
              /\ ~sy'[t].result
              /\ sy'[t].writes = 0 /\ remote' = remote
              /\ IF sy[t].lot_id \in Keys(LOTS)
                 THEN /\ sy'[t].saves = 1
                      /\ FILE'.ok => FILE'.lots = LOTS'
                      /\ Keys(LOTS') = Keys(LOTS) \ {sy[t].lot_id}
                 ELSE /\ sy'[t].saves = 0
                      /\ LOTS' = LOTS /\ FILE' = FILE]_vars

\* a sync has pruned its item: the item is gone and the file, written, holds LOTS
C5_Witness ==
    \E t \in Threads :
        /\ sy[t].pc = "ret" /\ sy[t].outcome = "notfound" /\ sy[t].saves = 1
        /\ sy[t].lot_id \notin Keys(LOTS)
        /\ FILE.ok /\ FILE.lots = LOTS

-----------------------------------------------------------------------------
(* update_lot_price called directly, MaxCalls times in immediate           *)
(* succession, for the one item of the store.  io is the log of the calls  *)
(* that have returned.                                                     *)

\* bounds and remote prices that are not whole cents, and none of them half a
\* cent, where binary floats and exact values may round differently
ItemBounds == {<<1000, 5000000>>, <<1004, 5000000>>, <<1000, 1006>>}
SyncRemotePrices == {996, 1004, 11320}

InitSync ==
    /\ \E currency \in {"USD", "UAH"}, b \in ItemBounds :
          /\ LOTS = [id \in {"1"} |-> StoredLot(TRUE, "730", currency, b[1], b[2])]
          /\ FILE = [lots |-> LOTS, keys |-> <<"1">>, ok |-> TRUE]
    /\ order = <<"1">>
    /\ SETTINGS = StoreSettings
    /\ now = 24 * Hour
    /\ InitTasks
    /\ \E p \in SyncRemotePrices, save_lot \in BOOLEAN :
          remote = [price |-> [id \in AllIds |-> p], save_lot |-> save_lot,
                    steam |-> {None, 20, 10000}]
    /\ CACHE = <<>>
    /\ io = <<>>

\* update_lot_price("1", LOTS["1"], cardinal)
SyncCall ==
    /\ sy["single"].pc = "idle"
    /\ Len(io) < MaxCalls
    /\ "1" \in Keys(LOTS)
    /\ sy' = [sy EXCEPT !["single"] = CallFrame("1", "1")]
    /\ UNCHANGED <<LOTS, order, FILE, SETTINGS, now, sched, lot_last_check, un, remote,
                   WIZARD_STATES, ops, CACHE, io>>

\* the call returns to its caller
SyncReturn ==
    /\ sy["single"].pc = "ret"
    /\ io' = Append(io, [steam_price |-> sy["single"].steam_price,
                         new_price |-> sy["single"].new_price,
                         old_price |-> sy["single"].old_price,
                         writes |-> sy["single"].writes,
                         result |-> sy["single"].result,
                         outcome |-> sy["single"].outcome])
    /\ sy' = [sy EXCEPT !["single"] = IdleFrame]
    /\ UNCHANGED <<LOTS, order, FILE, SETTINGS, now, sched, lot_last_check, un, remote,
                   WIZARD_STATES, ops, CACHE>>

NextSync ==
    \/ SyncCall
    \/ SyFetch("single")
    \/ SyCalc("single")
    \/ SyFields("single")
    \/ SyCompare("single")
    \/ SySave("single")
    \/ SyRecord("single")
    \/ SyncReturn

SpecSync == InitSync /\ [][NextSync]_vars

\* the call got as far as the comparison of the two prices
Compared(e) == e.outcome \in {"unchanged", "updated", "savefailed", "unavailable"}

\* calls i and i + 1: the first succeeded, the second had the same reference
\* price and computed the same price, and reached the comparison
IdemCase(i) ==
    /\ io[i].result
    /\ Compared(io[i + 1])
    /\ io[i + 1].steam_price = io[i].steam_price
    /\ io[i + 1].new_price = io[i].new_price

\* C3 as stated: two calls in immediate succession with unchanged inputs make
\* exactly one save_lot call; the second makes none and reports success.
C3_ExactlyOneWrite ==
    \A i \in 1..(Len(io) - 1) :
        IdemCase(i) =>
            /\ io[i].writes + io[i + 1].writes = 1
            /\ io[i + 1].writes = 0 /\ io[i + 1].result

\* C3, amended: of two calls in immediate succession with unchanged inputs the
\* second makes no save_lot call and reports success (unchanged); the first
\* makes one if the remote price and the computed price differ once both are
\* rounded to cents, and none if they do not.
C3_Idempotent ==
    \A i \in 1..(Len(io) - 1) :
        IdemCase(i) =>
            /\ io[i + 1].writes = 0 /\ io[i + 1].result /\ io[i + 1].outcome = "unchanged"
            /\ io[i].writes = IF Round2(io[i].new_price) # Round2(io[i].old_price)
                              THEN 1 ELSE 0

\* a first call that wrote, followed by a second one that found nothing to do
C3_Witness ==
    /\ Len(io) = 2
    /\ IdemCase(1)
    /\ io[1].outcome = "updated" /\ io[1].writes = 1
    /\ io[2].outcome = "unchanged"

\* C4 as stated: change_price issues a save_lot call if and only if the remote
\* price and the computed price differ by at least 0.01.
C4_Threshold ==
    \A i \in 1..Len(io) :
        (Compared(io[i]) /\ remote.save_lot) =>
            (io[i].writes = 1 <=> Abs(io[i].new_price - io[i].old_price) >= Cent)

\* C4, amended: change_price issues a save_lot call if and only if the remote
\* price and the computed price, each rounded to cents, are different amounts
\* (and the account object has a save_lot method).
C4_RoundedThreshold ==
    \A i \in 1..Len(io) :
        Compared(io[i]) =>
            (io[i].writes = 1 <=>
                (Round2(io[i].new_price) # Round2(io[i].old_price) /\ remote.save_lot))

\* a write for two prices less than a cent apart
C4_Witness ==
    \E i \in 1..Len(io) :
        /\ Compared(io[i]) /\ io[i].writes = 1
        /\ Abs(io[i].new_price - io[i].old_price) < Cent

-----------------------------------------------------------------------------
(* The rate provider called again and again while its clock advances by    *)
(* quarter hours.  io holds the last call: the currency, the status of the *)
(* two sources' answers, the rate returned, and as history the value last  *)
(* stored in the cache for each currency (prev: before this call).  It     *)
(* also holds the requests the call sent (contacts), what the cache held   *)
(* under the currency's key before the call (held: value and age, or None) *)
(* and the rate and time of the last answer taken from a source (fetched). *)

RateCurrencies == {"USD", "RUB", "KZT"}
RateAnswers ==
    {[status |-> "fail", rate |-> 0], [status |-> "missing", rate |-> 0],
     [status |-> "ok", rate |-> 90000], [status |-> "ok", rate |-> 0]}

StoreAtRest ==
    /\ LOTS = InitLots
    /\ order = <<"1", "2">>
    /\ FILE = [lots |-> InitLots, keys |-> <<"1", "2">>, ok |-> TRUE]
    /\ InitTasks
    /\ remote = [price |-> [id \in AllIds |-> 5000], save_lot |-> TRUE,
                 steam |-> {None, 0, 10000}]

InitRate ==
    /\ StoreAtRest
    /\ SETTINGS = StoreSettings
    /\ now = 24 * Hour
    /\ CACHE = <<>>
    /\ io = [done |-> FALSE, currency |-> "USD", primary |-> "fail", secondary |-> "none",
             rate |-> 0, prev |-> None, last |-> [c \in RateCurrencies |-> None],
             answers |-> <<None, None>>, contacts |-> <<>>,
             held |-> [value |-> None, age |-> None],
             fetched |-> [c \in RateCurrencies |-> [rate |-> None, time |-> None]],
             before |-> [rate |-> None, time |-> None]]

\* the value under k in the cache "after" if the call put it there, else last
LastStored(before, after, k, last) ==
    IF k \in CacheKeys(after)
       /\ (k \notin CacheKeys(before) \/ CacheEntry(after, k) # CacheEntry(before, k))
    THEN CacheEntry(after, k).value
    ELSE last

\* get_currency_rate(currency) with the answers the two sources give or would give
RateCall ==
    /\ \E currency \in RateCurrencies, primary \in RateAnswers, secondary \in RateAnswers :
          LET r == get_currency_rate(CACHE, currency, now, primary, secondary)
          IN  /\ CACHE' = r[2]
              /\ io' = [done |-> TRUE, currency |-> currency, primary |-> primary.status,
                        secondary |-> IF HasSecondary(currency) THEN secondary.status
                                      ELSE "none",
                        rate |-> r[1], prev |-> io.last[currency],
                        last |-> [io.last EXCEPT ![currency] =
                                     LastStored(CACHE, r[2], RateKey(currency), @)],
                        answers |-> <<primary.rate, secondary.rate>>,
                        contacts |-> RateContacts(CACHE, currency, now, primary),
                        held |-> IF RateKey(currency) \in CacheKeys(CACHE)
                                 THEN [value |-> CacheEntry(CACHE, RateKey(currency)).value,
                                       age |-> now - CacheEntry(CACHE, RateKey(currency)).timestamp]
                                 ELSE [value |-> None, age |-> None],
                        fetched |-> IF RateContacts(CACHE, currency, now, primary) # <<>>
                                       /\ RateKey(currency) \in CacheKeys(r[2])
                                       /\ CacheEntry(r[2], RateKey(currency)).timestamp = now
                                    THEN [io.fetched EXCEPT ![currency] =
                                             [rate |-> r[1], time |-> now]]
                                    ELSE io.fetched,
                        before |-> io.fetched[currency]]
    /\ UNCHANGED <<LOTS, order, FILE, SETTINGS, now, sched, lot_last_check, un, sy, remote,
                   WIZARD_STATES, ops>>

RateTick ==
    /\ now < 24 * Hour + MaxRateTicks * RATE_FRESH
    /\ now' = now + RATE_FRESH
    /\ UNCHANGED <<LOTS, order, FILE, SETTINGS, sched, lot_last_check, un, sy, remote,
                   WIZARD_STATES, ops, CACHE, io>>

NextRate ==
    \/ RateCall
    \/ RateTick

SpecRate == InitRate /\ [][NextRate]_vars

\* C8: when the primary source and the currency's secondary source both fail,
\* get_currency_rate returns the value last cached for the currency, whatever
\* its age, and not the static table's.
C8_StaleFallback ==
    (io.done /\ io.primary # "ok" /\ io.secondary # "ok" /\ io.prev > 0)
        => io.rate = io.prev

\* C9: whatever fails upstream (here: the primary source at least),
\* get_currency_rate returns a rate greater than 0.
C9_RateTotal == (io.done /\ io.primary # "ok") => io.rate > 0

-----------------------------------------------------------------------------
(* calculate_lot_price applied to source prices, currencies and rate       *)
(* tables under settings whose bounds need not be whole cents.  io holds   *)
(* the last call.                                                          *)

PriceBounds == {<<1000, 5000000>>, <<1004, 1006>>, <<2000, 2000>>, <<300, 5000000>>,
                <<3000, 2000>>}
PriceInputs == {-1000, 0, 10, 20, 10000, 100000}
\* the rate tables of a calculation, and a table in which one currency's rate
\* is 0.0 and another's is negative while the others are the market's
PriceRateTables ==
    RateTables \cup {[[c \in Currencies |-> MarketRate(c)] EXCEPT !["RUB"] = 0,
                                                                  !["KZT"] = -500000]}

InitPrice ==
    /\ StoreAtRest
    /\ \E currency \in {"USD", "RUB"}, b \in PriceBounds :
          SETTINGS = [DefaultSettings EXCEPT !.currency = currency,
                                             !.min_price = b[1], !.max_price = b[2]]
    /\ now = 24 * Hour
    /\ CACHE = <<>>
    /\ io = [done |-> FALSE, steam_price |-> 0, steam_currency |-> "USD",
             rate |-> [c \in Currencies |-> 0], fault |-> "none", positive |-> TRUE,
             raised |-> FALSE, consulted |-> {}, result |-> 0]

PriceCall ==
    /\ \E steam_price \in PriceInputs, steam_currency \in Currencies,
          rate \in PriceRateTables, fault \in PriceFaults :
          LET r == calculate_lot_price_guarded(SETTINGS, steam_price, steam_currency,
                                               rate, fault)
          IN  io' = [done |-> TRUE, steam_price |-> steam_price,
                     steam_currency |-> steam_currency, rate |-> rate, fault |-> fault,
                     positive |-> \A c \in Currencies : rate[c] > 0,
                     raised |-> r.raised,
                     consulted |-> IF fault = "price" THEN {}
                                   ELSE RatesConsulted(SETTINGS, steam_price,
                                                       steam_currency, rate),
                     result |-> r.value]
    /\ UNCHANGED <<LOTS, order, FILE, SETTINGS, now, sched, lot_last_check, un, sy, remote,
                   WIZARD_STATES, ops, CACHE>>

NextPrice == PriceCall

SpecPrice == InitPrice /\ [][NextPrice]_vars

\* C10: with positive rates and settings where 0 < min_price <= max_price,
\* calculate_lot_price returns a value between min_price and max_price.
C10_PriceBounds ==
    (io.done /\ io.fault = "none" /\ io.positive /\ 0 < SETTINGS.min_price
        /\ SETTINGS.min_price <= SETTINGS.max_price)
        => (SETTINGS.min_price <= io.result /\ io.result <= SETTINGS.max_price)

\* the reference value of C11: the base price by the three currency cases,
\* the percentage margins, then the fixed markup, the bounds, the rounding
ReferenceBase(S, p, source, rate) ==
    IF source = S.currency THEN Rat(p, 1000)
    ELSE IF S.currency = "USD" THEN Rat(p, rate[source])
    ELSE RMul(Rat(p, rate[source]), Rat(rate[S.currency], 1000))

ReferencePrice(S, p, source, rate) ==
    LET margins == RMul(RMul(ReferenceBase(S, p, source, rate),
                             Rat(100 + S.first_markup, 100)),
                        Rat(100 + S.second_markup, 100))
        final == RAdd(margins, Rat(S.fixed_markup, 1000))
        clamped == RMax(RMin(final, Rat(S.max_price, 1000)), Rat(S.min_price, 1000))
    IN  Round2Rat(clamped)

\* C11 as stated: for every source price above 0 and positive rates,
\* calculate_lot_price returns the reference value.
C11_ReferenceFormula ==
    (io.done /\ io.fault = "none" /\ io.positive /\ io.steam_price > 0)
        => io.result = ReferencePrice(SETTINGS, io.steam_price, io.steam_currency, io.rate)

\* C11, amended: for every source price above one cent and positive rates,
\* calculate_lot_price returns the reference value (the cap applied before
\* the floor); for a source price of at most one cent it returns min_price.
C11_ReferenceAboveCent ==
    (io.done /\ io.fault = "none" /\ io.positive)
        => IF io.steam_price > Cent
           THEN io.result = ReferencePrice(SETTINGS, io.steam_price, io.steam_currency,
                                           io.rate)
           ELSE io.result = SETTINGS.min_price

\* a price converted through both rates that neither bound clamps
C11_Witness ==
    /\ io.done /\ io.fault = "none" /\ io.positive /\ io.steam_price > Cent
    /\ io.steam_currency \notin {"USD", SETTINGS.currency} /\ SETTINGS.currency # "USD"
    /\ SETTINGS.min_price < io.result /\ io.result < SETTINGS.max_price

\* C12: for every source price of 0 or less, calculate_lot_price returns
\* exactly min_price and asks for no rate.
C12_FloorUnpriceable ==
    (io.done /\ io.fault # "price" /\ io.steam_price <= 0)
        => (io.result = SETTINGS.min_price /\ io.consulted = {})

\* a price of 0 in a currency that a positive price would have converted,
\* under a floor below what the formula gives for 0
C12_Witness ==
    /\ io.done /\ io.fault = "none" /\ io.steam_price = 0
    /\ io.steam_currency # SETTINGS.currency
    /\ SETTINGS.min_price < SETTINGS.fixed_markup
    /\ io.result = SETTINGS.min_price

\* C13 as stated: when an exception occurs inside calculate_lot_price, the
\* function returns min_price.
C13_FailureIsMinPrice == (io.done /\ io.raised) => io.result = SETTINGS.min_price

\* C13, amended: when an exception occurs inside calculate_lot_price, the
\* function returns 0.0, whatever min_price is.
C13_FailureIsZero == (io.done /\ io.raised) => io.result = 0

C13_Witness ==
    /\ io.done /\ io.raised /\ io.fault = "rate" /\ io.positive
    /\ io.steam_price > Cent /\ io.result = 0 /\ SETTINGS.min_price > 0

-----------------------------------------------------------------------------
(* The scheduler alone under an interval of one or of two hours, the clock *)
(* advancing by the hour.                                                  *)

InitGuard ==
    /\ StoreAtRest
    /\ \E hours \in {1, 2} : SETTINGS = [DefaultSettings EXCEPT !.time = hours * Hour]
    /\ now = 24 * Hour
    /\ CACHE = <<>>
    /\ io = <<>>

SpecGuard == InitGuard /\ [][NextSched]_vars

\* the step hands item id to update_lot_price
Handed(id) == sched'.handed = Append(sched.handed, id)

\* C14: the scheduler records an item's last-check time in the step that hands
\* it to update_lot_price and in no other step, whatever becomes of the sync;
\* and it hands an item it has processed before only when at least
\* SETTINGS.time has passed since the time recorded for it.
C14_ReprocessingGuard ==
    [][\A id \in AllIds :
          /\ Handed(id) =>
                /\ lot_last_check'[id] = sched.current_time
                /\ lot_last_check[id] > 0 => now - lot_last_check[id] >= SETTINGS.time
          /\ lot_last_check'[id] # lot_last_check[id] => Handed(id)]_vars

\* a later wake, less than the interval after an enabled item was processed,
\* went through the items and handed none of them over
C14_Witness ==
    /\ sched.pc = "idle" /\ ~sched.aborted /\ sched.handed = <<>>
    /\ \E id \in Keys(LOTS) :
          /\ LotOn(LOTS[id])
          /\ 0 < lot_last_check[id] /\ lot_last_check[id] < sched.current_time
          /\ sched.current_time - lot_last_check[id] < SETTINGS.time

-----------------------------------------------------------------------------
(* The cache alone: a UnifiedCacheManager of max_size SmallCacheSize under *)
(* sets, gets and clears of three keys while its clock advances by half    *)
(* hours.  io holds, for each key, the value and time of the last set and  *)
(* whether the entry was taken out since ("evicted", "cleared", else "no"),*)
(* the last get, and the key of the set when the last step was a set.      *)

CacheTestKeys == {RateKey("RUB"), SteamKey("730", "USD"), SteamKey("570", "USD")}
CacheTestValues == {0, 5000}
NoSet == [value |-> None, time |-> None, out |-> "never"]

InitCache ==
    /\ StoreAtRest
    /\ SETTINGS = StoreSettings
    /\ now = 24 * Hour
    /\ CACHE = <<>>
    /\ io = [stored |-> [k \in CacheTestKeys |-> NoSet],
             got |-> [done |-> FALSE, key |-> RateKey("RUB"), hit |-> FALSE,
                      value |-> None, time |-> None],
             set |-> [done |-> FALSE, key |-> RateKey("RUB")]]

\* the bookkeeping after a step that leaves the cache c: the entries that left
\* it are out, and "how" tells by what
TakenOut(stored, c, how) ==
    [k \in CacheTestKeys |-> IF k \in CacheKeys(c) \/ stored[k].out # "no" THEN stored[k]
                             ELSE [stored[k] EXCEPT !.out = how]]

CacheSetCall ==
    /\ \E k \in CacheTestKeys, v \in CacheTestValues :
          LET c == CacheSet(CACHE, k, v, now, SmallCacheSize)
          IN  /\ CACHE' = c
              /\ io' = [io EXCEPT
                           !.stored = [TakenOut(io.stored, c, "evicted") EXCEPT
                                          ![k] = [value |-> v, time |-> now,
                                                  out |-> "no"]],
                           !.got.done = FALSE,
                           !.set = [done |-> TRUE, key |-> k]]
    /\ UNCHANGED <<LOTS, order, FILE, SETTINGS, now, sched, lot_last_check, un, sy, remote,
                   WIZARD_STATES, ops>>

CacheGetCall ==
    /\ \E k \in CacheTestKeys :
          LET g == CacheGet(CACHE, k, now, CACHE_TTL)
          IN  /\ CACHE' = g[3]
              /\ io' = [io EXCEPT !.got = [done |-> TRUE, key |-> k, hit |-> g[1],
                                           value |-> g[2], time |-> now],
                                   !.set.done = FALSE]
    /\ UNCHANGED <<LOTS, order, FILE, SETTINGS, now, sched, lot_last_check, un, sy, remote,
                   WIZARD_STATES, ops>>

\* clear_currency_cache
CacheClearRates ==
    /\ CACHE' = CacheClearByPattern(CACHE, "currency_rate")
    /\ io' = [io EXCEPT !.stored = TakenOut(io.stored, CACHE', "cleared"), !.got.done = FALSE,
                         !.set.done = FALSE]
    /\ UNCHANGED <<LOTS, order, FILE, SETTINGS, now, sched, lot_last_check, un, sy, remote,
                   WIZARD_STATES, ops>>

\* CACHE.clear_expired()
CacheClearExpiredCall ==
    /\ CACHE' = CacheClearExpired(CACHE, now, CACHE_TTL)
    /\ io' = [io EXCEPT !.stored = TakenOut(io.stored, CACHE', "expired"), !.got.done = FALSE,
                         !.set.done = FALSE]
    /\ UNCHANGED <<LOTS, order, FILE, SETTINGS, now, sched, lot_last_check, un, sy, remote,
                   WIZARD_STATES, ops>>

CacheTick ==
    /\ now < 24 * Hour + MaxCacheTicks * (CACHE_TTL \div 2)
    /\ now' = now + CACHE_TTL \div 2
    /\ io' = [io EXCEPT !.got.done = FALSE, !.set.done = FALSE]
    /\ UNCHANGED <<LOTS, order, FILE, SETTINGS, sched, lot_last_check, un, sy, remote,
                   WIZARD_STATES, ops, CACHE>>

NextCache ==
    \/ CacheSetCall
    \/ CacheGetCall
    \/ CacheClearRates
    \/ CacheClearExpiredCall
    \/ CacheTick

SpecCache == InitCache /\ [][NextCache]_vars

\* the last set of the key the last get asked for
GotSet == io.stored[io.got.key]

\* C15 as stated: whatever sets and gets come between, a get at a time
\* before T + ttl returns the value set at T, and a get at a time of T + ttl
\* or later reports the key absent.
C15_TTL ==
    (io.got.done /\ GotSet.time # None /\ GotSet.out # "cleared")
        => IF io.got.time < GotSet.time + CACHE_TTL
           THEN io.got.hit /\ io.got.value = GotSet.value
           ELSE ~io.got.hit

\* C15, amended: a get at a time before T + ttl returns the value set at T
\* unless the entry was taken out in between (evicted as the oldest by a set
\* into a full cache, or cleared by pattern), and then it reports the key
\* absent; a get at a time of T + ttl or later reports the key absent.
C15_TTLUnlessTakenOut ==
    (io.got.done /\ GotSet.time # None)
        => IF io.got.time < GotSet.time + CACHE_TTL /\ GotSet.out = "no"
           THEN io.got.hit /\ io.got.value = GotSet.value
           ELSE ~io.got.hit

\* a hit half an hour after the set, sets of another key in between
C15_Witness ==
    /\ io.got.done /\ io.got.hit /\ GotSet.out = "no"
    /\ GotSet.time < io.got.time
    /\ \E k \in CacheTestKeys \ {io.got.key} : io.stored[k].time > GotSet.time

-----------------------------------------------------------------------------
(* The order of rate resolution, over the calls of SpecRate                *)

\* the first step that succeeds, by the order of C16: its result and the
\* requests made up to it
ResolvedRate ==
    IF io.held.age # None /\ io.held.age < RATE_FRESH
    THEN [rate |-> io.held.value, contacts |-> <<>>]
    ELSE IF io.primary = "ok"
    THEN [rate |-> io.answers[1], contacts |-> <<"primary">>]
    ELSE IF io.secondary = "ok"
    THEN [rate |-> io.answers[2], contacts |-> <<"primary", "secondary">>]
    ELSE [rate |-> IF io.held.age # None /\ io.held.age < CACHE_TTL /\ io.held.value > 0
                   THEN io.held.value
                   ELSE StaticRate(io.currency),
          contacts |-> IF io.secondary = "none" THEN <<"primary">>
                       ELSE <<"primary", "secondary">>]

-----------------------------------------------------------------------------
(* get_steam_price called again and again with identifiers well and ill    *)
(* formed, while the clock advances by half hours.  io holds the last call *)
(* (with the cache as it was before it) and, for each identifier and       *)
(* currency, how the last call for them ended and when (was: before the    *)
(* last call).                                                             *)

SteamIds ==
    {<<"7", "3">>, <<" ", "7", "3">>, <<"s", "u", "b", "_", "5">>, <<"s", "u", "b", "_">>,
     <<"7", "x">>, <<>>}
SteamCurrencies == {"UAH", "USD"}
CatalogAnswers ==
    {[kind |-> k, final |-> 0] :
        k \in {"transport", "status", "unparsable", "unsuccessful", "noprice", "priced"}}
    \cup {[kind |-> "priced", final |-> 500]}
FailureKinds == {"transport", "status", "unparsable", "unsuccessful"}
NoCall == [kind |-> "none", time |-> None]

InitSteam ==
    /\ StoreAtRest
    /\ SETTINGS = StoreSettings
    /\ now = 24 * Hour
    /\ CACHE = <<>>
    /\ io = [done |-> FALSE, calls |-> 0, time |-> None, steam_id |-> <<>>,
             currency_code |-> "UAH", answer |-> "none", value |-> None, accessed |-> FALSE, slept |-> FALSE,
             requested |-> FALSE, before |-> <<>>, was |-> NoCall,
             hist |-> [k \in SteamIds \X SteamCurrencies |-> NoCall]]

\* how a call ended
CallKind(r, answer) ==
    IF ~r.requested THEN (IF r.accessed THEN "cached" ELSE "rejected")
    ELSE IF r.value = None THEN "failed"
    ELSE IF r.value = 0 THEN "zero"
    ELSE "priced"

SteamCall ==
    /\ io.calls < MaxSteamCalls
    /\ \E steam_id \in SteamIds, currency_code \in SteamCurrencies,
          answer \in CatalogAnswers :
          LET r == get_steam_price(CACHE, steam_id, currency_code, now, answer)
              kind == CallKind(r, answer)
          IN  /\ CACHE' = r.cache
              /\ io' = [done |-> TRUE, calls |-> io.calls + 1, time |-> now,
                        steam_id |-> steam_id, currency_code |-> currency_code,
                        answer |-> IF r.requested THEN answer.kind ELSE "none",
                        value |-> r.value, accessed |-> r.accessed, slept |-> r.slept,
                        requested |-> r.requested, before |-> CACHE,
                        was |-> io.hist[<<steam_id, currency_code>>],
                        hist |-> IF kind = "cached" THEN io.hist
                                 ELSE [io.hist EXCEPT ![<<steam_id, currency_code>>] =
                                          [kind |-> kind, time |-> now]]]
    /\ UNCHANGED <<LOTS, order, FILE, SETTINGS, now, sched, lot_last_check, un, sy, remote,
                   WIZARD_STATES, ops>>

SteamTick ==
    /\ now < 24 * Hour + MaxSteamTicks * (CACHE_TTL \div 2)
    /\ now' = now + CACHE_TTL \div 2
    /\ UNCHANGED <<LOTS, order, FILE, SETTINGS, sched, lot_last_check, un, sy, remote,
                   WIZARD_STATES, ops, CACHE, io>>

NextSteam ==
    \/ SteamCall
    \/ SteamTick

SpecSteam == InitSteam /\ [][NextSteam]_vars

\* the entries of a cache
Entries(c) == {c[i] : i \in 1..Len(c)}

\* C17: a call of get_steam_price whose request fails (transport error or
\* timeout, status other than 200, unparsable body, success flag false)
\* returns None and stores nothing in the cache: no entry is added or
\* changed and none is left under the call's key; and the call that follows
\* a failed one for the same identifier and currency sends a request.
C17_FailureNotCached ==
    /\ (io.done /\ io.answer \in FailureKinds)
          => /\ io.value = None
             /\ Entries(CACHE) \subseteq Entries(io.before)
             /\ SteamKey(io.steam_id, io.currency_code) \notin CacheKeys(CACHE)
    /\ (io.done /\ io.was.kind = "failed") => io.requested

\* two failed calls in a row for one identifier and currency
C17_Witness ==
    /\ io.done /\ io.answer \in FailureKinds /\ io.was.kind = "failed"
    /\ io.requested /\ io.value = None

\* C18: a call whose request the catalog answers with success for an item
\* without a positive price stores 0.0 under the call's key and returns 0.0;
\* a call for the same identifier and currency less than the cache TTL later
\* returns 0.0 without a request and without the pacing delay.
C18_NoPriceSignal ==
    /\ (io.done /\ io.requested
        /\ (io.answer = "noprice" \/ (io.answer = "priced" /\ io.value <= 0)))
          => /\ io.value = 0
             /\ SteamKey(io.steam_id, io.currency_code) \in CacheKeys(CACHE)
             /\ CacheEntry(CACHE, SteamKey(io.steam_id, io.currency_code)).value = 0
             /\ CacheEntry(CACHE, SteamKey(io.steam_id, io.currency_code)).timestamp = io.time
    /\ (io.done /\ io.was.kind = "zero" /\ io.time - io.was.time < CACHE_TTL)
          => (io.value = 0 /\ ~io.requested /\ ~io.slept)

\* 0.0 served from the cache half an hour after the catalog reported no price
C18_Witness ==
    /\ io.done /\ io.was.kind = "zero" /\ io.was.time < io.time
    /\ io.value = 0 /\ ~io.requested /\ ~io.slept /\ io.accessed

\* the identifier as it is written is digits only, or sub_ followed by digits
WellFormed(steam_id) ==
    \/ IsDigit(steam_id)
    \/ StartsWith(steam_id, SubPrefix) /\ IsDigit(SubSeq(steam_id, 5, Len(steam_id)))

\* C19 as stated: a call with an identifier that is neither digits only nor
\* sub_ followed by digits returns None without a cache access, a pacing
\* delay or a request.
C19_IdentifierValidation ==
    (io.done /\ ~WellFormed(io.steam_id))
        => (io.value = None /\ ~io.accessed /\ ~io.slept /\ ~io.requested)

\* C19, amended: the same of an identifier that, with the blanks around it
\* stripped, is neither digits only nor sub_ followed by digits.
C19_StrippedValidation ==
    (io.done /\ ~WellFormed(Strip(io.steam_id)))
        => (io.value = None /\ ~io.accessed /\ ~io.slept /\ ~io.requested)

\* an identifier with a letter rejected while the cache holds entries
C19_Witness ==
    /\ io.done /\ io.steam_id = <<"7", "x">> /\ io.value = None
    /\ ~io.accessed /\ io.before # <<>> /\ CACHE = io.before

-----------------------------------------------------------------------------
(* Items the add-lot wizard creates, in the store with its tasks           *)

\* the item was stored by the wizard's last step
WizardMade(d) == "enabled" \in d.has

\* C20: every item the wizard has stored is one the scheduler and update-now
\* select (its "on" reads true) and one validate_lot_data accepts.
C20_WizardItemLive ==
    \A id \in Keys(LOTS) :
        WizardMade(LOTS[id]) => (LotOn(LOTS[id]) /\ validate_lot_data(LOTS[id]))

-----------------------------------------------------------------------------
(* Failures of a sync, and the persistence of a pass                       *)

\* the step in which get_lot_fields fails in thread t otherwise than by
\* reporting that the listing does not exist
FieldsFailed(t) ==
    /\ sy[t].pc = "fields" /\ sy'[t].pc = "ret"
    /\ sy'[t].outcome \in {"error", "nofields", "nooldprice"}

\* C21: when retrieving the listing fails otherwise than by not-found (another
\* exception, no listing or a listing without a price attribute, a price of
\* None), the sync reports failure and the store stays as it is.
C21_PruneOnlyNotFound ==
    [][\A t \in Threads : FieldsFailed(t) => (~sy'[t].result /\ LOTS' = LOTS)]_vars

\* C22: when the scheduler returns to idle from a pass that handed over at
\* least one item, the store has been persisted: the file, if its last write
\* succeeded, holds the store as it is.
C22_PersistAfterPass ==
    [][(sched.pc # "idle" /\ sched'.pc = "idle" /\ sched'.handed # <<>>)
          => (FILE'.ok => FILE'.lots = LOTS')]_vars

-----------------------------------------------------------------------------
(* The scheduler and update_single_lot's thread syncing the same item, the *)
(* source answering with either of two prices.                             *)

InitRace ==
    /\ LOTS = [id \in {"1"} |-> StoredLot(TRUE, "730", "USD", 1000, 5000000)]
    /\ order = <<"1">>
    /\ FILE = [lots |-> LOTS, keys |-> <<"1">>, ok |-> TRUE]
    /\ SETTINGS = StoreSettings
    /\ now = 24 * Hour
    /\ InitTasks
    /\ remote = [price |-> [id \in AllIds |-> 5000], save_lot |-> TRUE,
                 steam |-> {20, 10000}]
    /\ CACHE = <<>>
    /\ io = <<>>

RaceThreads == {"sched", "single"}

NextRace ==
    \/ SchedWake
    \/ SchedStep
    \/ update_single_lot("1")
    \/ UsFinish
    \/ \E t \in RaceThreads : SyFetch(t)
    \/ \E t \in RaceThreads : SyCalc(t)
    \/ \E t \in RaceThreads : SyFields(t)
    \/ \E t \in RaceThreads : SyCompare(t)
    \/ \E t \in RaceThreads : SySave(t)
    \/ \E t \in RaceThreads : SyRecord(t)

SpecRace == InitRace /\ [][NextRace]_vars

\* both syncs of the item wrote a price and returned
BothUpdated(id) ==
    /\ id \in Keys(LOTS)
    /\ \A t \in RaceThreads :
          sy[t].pc = "ret" /\ sy[t].lot_id = id /\ sy[t].outcome = "updated"

\* C23: when the scheduler's sync and the single-item thread's sync of the
\* same item have both written and finished, the item's last_steam_price and
\* last_price are the reference price and the price of one of the two syncs.
C23_LastWriterWins ==
    \A id \in AllIds :
        BothUpdated(id) =>
            \E t \in RaceThreads : /\ LOTS[id].last_steam_price = sy[t].steam_price
                                   /\ LOTS[id].last_price = sy[t].new_price

-----------------------------------------------------------------------------
(* update_lot_price called for the one item of a store, as the operator's  *)
(* handlers may have left it: valid, or with bounds that an edit made      *)
(* unusable, or made by the wizard.  io holds what the item, the file and  *)
(* the remote side were when the last call was made.                       *)

ItemCases ==
    {StoredLot(TRUE, "730", "USD", 1000, 5000000),
     StoredLot(TRUE, "730", "USD", 0, 5000000),
     StoredLot(TRUE, "730", "USD", -1000, 5000000),
     StoredLot(TRUE, "730", "USD", 1000, 0),
     StoredLot(TRUE, "730", "USD", 3000, 2000),
     WizardLot("730", "UAH", 1000, 2000)}

InitItem ==
    /\ \E d \in ItemCases :
          /\ LOTS = [id \in {"1"} |-> d]
          /\ FILE = [lots |-> LOTS, keys |-> <<"1">>, ok |-> TRUE]
    /\ order = <<"1">>
    /\ SETTINGS = StoreSettings
    /\ now = 24 * Hour
    /\ InitTasks
    /\ \E save_lot \in BOOLEAN :
          remote = [price |-> [id \in AllIds |-> 5000], save_lot |-> save_lot,
                    steam |-> {None, 0, 10000}]
    /\ CACHE = <<>>
    /\ io = [calls |-> 0, LOTS |-> LOTS, FILE |-> FILE, remote |-> remote]

\* update_lot_price("1", LOTS["1"], cardinal)
ItemCall ==
    /\ sy["single"].pc = "idle"
    /\ io.calls < MaxCalls
    /\ "1" \in Keys(LOTS)
    /\ sy' = [sy EXCEPT !["single"] = CallFrame("1", "1")]
    /\ io' = [calls |-> io.calls + 1, LOTS |-> LOTS, FILE |-> FILE, remote |-> remote]
    /\ UNCHANGED <<LOTS, order, FILE, SETTINGS, now, sched, lot_last_check, un, remote,
                   WIZARD_STATES, ops, CACHE>>

\* the call returns to its caller
ItemReturn ==
    /\ sy["single"].pc = "ret"
    /\ sy' = [sy EXCEPT !["single"] = IdleFrame]
    /\ UNCHANGED <<LOTS, order, FILE, SETTINGS, now, sched, lot_last_check, un, remote,
                   WIZARD_STATES, ops, CACHE, io>>

NextItem ==
    \/ ItemCall
    \/ SyFetch("single")
    \/ SyCalc("single")
    \/ SyFields("single")
    \/ SyCompare("single")
    \/ SySave("single")
    \/ SyRecord("single")
    \/ ItemReturn
    \/ Tick

SpecItem == InitItem /\ [][NextItem]_vars

\* what an item dict holds of the three fields a sync records
LastFields(d) ==
    [has |-> d.has \cap {"last_steam_price", "last_price", "last_update"},
     last_steam_price |-> d.last_steam_price, last_price |-> d.last_price,
     last_update |-> d.last_update]

\* the call in progress reached save_lot's place and got no write done
SaveFailed(f) == f.pc = "ret" /\ f.outcome \in {"savefailed", "unavailable"}

\* C24: when save_lot raises or the account has no save_lot, update_lot_price
\* returns False and the item's last_steam_price, last_price and last_update
\* are what they were when the call was made.
C24_SaveFailureIntact ==
    SaveFailed(sy["single"]) =>
        /\ ~sy["single"].result
        /\ "1" \in Keys(LOTS)
        /\ LastFields(LOTS["1"]) = LastFields(io.LOTS["1"])

\* save_lot raised in a second sync, later than a first one that wrote
C24_Witness ==
    /\ sy["single"].pc = "ret" /\ sy["single"].outcome = "savefailed"
    /\ io.calls = 2
    /\ "last_price" \in io.LOTS["1"].has
    /\ io.LOTS["1"].last_update < now

\* the call in progress fetched, and its last attempt found no positive price
NoPositivePrice(f) == f.pc = "ret" /\ f.outcome # "invalid" /\ f.steam_price <= 0

\* C25: when none of a sync's fetch attempts yields a positive price (None or
\* 0.0 each time), update_lot_price returns False, has called neither
\* get_lot_fields nor save_lot, and the items, the file and the remote side
\* are what they were when the call was made.
C25_NoPriceNoChange ==
    NoPositivePrice(sy["single"]) =>
        /\ ~sy["single"].result /\ sy["single"].outcome = "noprice"
        /\ sy["single"].looks = 0 /\ sy["single"].writes = 0 /\ sy["single"].saves = 0
        /\ LOTS = io.LOTS /\ FILE = io.FILE /\ remote = io.remote

\* three attempts, the last one answering 0.0, for an item an earlier sync updated
C25_Witness ==
    /\ NoPositivePrice(sy["single"])
    /\ sy["single"].attempts = MAX_RETRIES /\ sy["single"].steam_price = 0
    /\ io.calls = 2 /\ "last_price" \in LOTS["1"].has

\* C26: within one sync get_steam_price is called at most MAX_RETRIES times;
\* the loop goes on only after an attempt without a positive price and leaves
\* at the first positive one; it has paused once after every attempt but the
\* last, and not after the last.
C26_BoundedRetry ==
    \A t \in Threads :
        LET f == sy[t]
        IN  /\ f.attempts <= MAX_RETRIES
            /\ f.pc = "fetch" =>
                  /\ f.attempts < MAX_RETRIES
                  /\ f.slept = f.attempts
                  /\ f.attempts > 0 => f.steam_price <= 0
            /\ f.pc \in {"calc", "fields", "cmp", "save", "record"} =>
                  /\ f.attempts >= 1
                  /\ f.steam_price > 0
                  /\ f.slept = f.attempts - 1
            /\ (f.pc = "ret" /\ f.outcome = "noprice") =>
                  /\ f.attempts = MAX_RETRIES
                  /\ f.slept = MAX_RETRIES - 1
                  /\ f.steam_price <= 0

\* the third attempt found a price: three calls, two pauses before it
C26_Witness ==
    /\ sy["single"].pc = "calc"
    /\ sy["single"].attempts = MAX_RETRIES
    /\ sy["single"].slept = MAX_RETRIES - 1

\* the item the call in progress was made for is not valid
CalledInvalid ==
    /\ sy["single"].pc # "idle"
    /\ \/ ~({"steam_id", "steam_currency", "min", "max"} \subseteq io.LOTS["1"].has)
       \/ io.LOTS["1"].min <= 0
       \/ io.LOTS["1"].max <= 0
       \/ io.LOTS["1"].min > io.LOTS["1"].max

\* C28: a sync of an item that lacks a required field, has a bound that is
\* not positive, or has min > max has returned False as soon as it is called:
\* it is at no fetch, no get_lot_fields and no save_lot call, and the items,
\* the file and the remote side are what they were when the call was made.
C28_InvalidSkipped ==
    CalledInvalid =>
        /\ sy["single"].pc = "ret" /\ sy["single"].outcome = "invalid"
        /\ ~sy["single"].result
        /\ sy["single"].steam_price = None /\ sy["single"].attempts = 0
        /\ sy["single"].looks = 0 /\ sy["single"].writes = 0 /\ sy["single"].saves = 0
        /\ LOTS = io.LOTS /\ FILE = io.FILE /\ remote = io.remote

\* a rejected sync of an item whose min is above its max
C28_Witness ==
    /\ sy["single"].pc = "ret" /\ sy["single"].outcome = "invalid"
    /\ {"min", "max"} \subseteq LOTS["1"].has
    /\ LOTS["1"].min > LOTS["1"].max /\ LOTS["1"].max > 0

\* C27: the price a sync hands to save_lot lies between the lot_min and the
\* lot_max the sync read from the item.
C27_ItemBoundsFinal ==
    \A t \in Threads :
        sy[t].pc = "save" =>
            (sy[t].lot_min <= sy[t].new_price /\ sy[t].new_price <= sy[t].lot_max)

\* the items the pass has handed to update_lot_price
HandedItems == {sched.handed[i] : i \in 1..Len(sched.handed)}

\* C29: when a pass of the scheduler has ended, the items it handed to
\* update_lot_price are the items that were enabled and due when it began
\* (due: current_time - lot_last_check >= SETTINGS.time, an item not yet
\* checked counting as checked at 0): those and no others.
C29_SelectionRule == sched.pc = "idle" => HandedItems = sched.due0

-----------------------------------------------------------------------------
(* The scheduler with an operator who may delete an item at any moment,    *)
(* under fair scheduling of the loop's thread: the thread takes its next   *)
(* step when it can (every pause ends, every request has a timeout).       *)
(* SyCalc("sched") is enabled exactly where the frame is at "calc" and     *)
(* every step of it leaves "calc", so its weak fairness is that the frame  *)
(* is not at "calc" for ever; it is written in that form.                  *)

NextLive ==
    \/ NextSched
    \/ \E id \in AllIds : delete_lot_confirm(id)

SchedThread ==
    \/ SchedWake
    \/ SchedStep
    \/ SyFetch("sched")
    \/ SyFields("sched")
    \/ SyCompare("sched")
    \/ SySave("sched")
    \/ SyRecord("sched")

CalcEnds == []<>(sy["sched"].pc # "calc")

SpecLive == Init /\ [][NextLive]_vars /\ WF_vars(SchedThread) /\ CalcEnds

\* C30: a pass of the scheduler always comes back to the loop's pause, whatever
\* failed in it, and from its pause the loop always starts a pass again.
C30_SchedulerLive ==
    /\ (sched.pc # "idle") ~> (sched.pc = "idle")
    /\ (sched.pc = "idle") ~> (sched.pc # "idle")

\* a pass that the deletion of an item ended has come back to the pause
C30_Witness == sched.pc = "idle" /\ sched.aborted /\ sched.handed # <<>>

-----------------------------------------------------------------------------
(* The settings under the operator's edits, from the defaults on.  io      *)
(* holds the last edit: its key, whether it was stored, and whether        *)
(* save_settings wrote the file.                                           *)

HourTexts == {-1, 0, 2}
MarkupTexts == {-1, 0, 7}
FixedTexts == {-500, 0, 250}
PriceTexts == {-1000, 0, 500, 6000000}
ACCOUNT_CURRENCIES == <<"USD", "RUB", "EUR">>

InitSettings ==
    /\ StoreAtRest
    /\ SETTINGS = DefaultSettings
    /\ now = 24 * Hour
    /\ CACHE = <<>>
    /\ io = [key |-> "", stored |-> FALSE, saved |-> FALSE]

\* the edit is stored and save_settings called
SettingStored(key, value) ==
    /\ SETTINGS' = [SETTINGS EXCEPT ![key] = value]
    /\ \E ok \in BOOLEAN : io' = [key |-> key, stored |-> TRUE, saved |-> ok]

\* edited, n = "settings", key "time": hours = int(text), at least 1
edited_time(hours) ==
    /\ SettingStored("time", (IF hours < 1 THEN 1 ELSE hours) * Hour)
    /\ UNCHANGED <<LOTS, order, FILE, now, sched, lot_last_check, un, sy, remote,
                   WIZARD_STATES, ops, CACHE>>

\* edited, n = "settings", key "first_markup", "second_markup" or "fixed_markup"
edited_markup(key, value) ==
    /\ SettingStored(key, IF value < 0 THEN 0 ELSE value)
    /\ UNCHANGED <<LOTS, order, FILE, now, sched, lot_last_check, un, sy, remote,
                   WIZARD_STATES, ops, CACHE>>

\* edited, n = "settings", key "min_price" or "max_price"
edited_price(key, value) ==
    /\ IF value <= 0
       THEN /\ io' = [key |-> key, stored |-> FALSE, saved |-> FALSE]
            /\ SETTINGS' = SETTINGS
       ELSE SettingStored(key, value)
    /\ UNCHANGED <<LOTS, order, FILE, now, sched, lot_last_check, un, sy, remote,
                   WIZARD_STATES, ops, CACHE>>

\* switch_currency: the next of the account currencies
switch_currency ==
    /\ LET i == CHOOSE i \in 1..3 : ACCOUNT_CURRENCIES[i] = SETTINGS.currency
       IN  SettingStored("currency", ACCOUNT_CURRENCIES[(i % 3) + 1])
    /\ UNCHANGED <<LOTS, order, FILE, now, sched, lot_last_check, un, sy, remote,
                   WIZARD_STATES, ops, CACHE>>

NextSettings ==
    \/ \E hours \in HourTexts : edited_time(hours)
    \/ \E key \in {"first_markup", "second_markup"}, value \in MarkupTexts :
          edited_markup(key, value)
    \/ \E value \in FixedTexts : edited_markup("fixed_markup", value)
    \/ \E key \in {"min_price", "max_price"}, value \in PriceTexts :
          edited_price(key, value)
    \/ switch_currency

SpecSettings == InitSettings /\ [][NextSettings]_vars

\* C31: after any sequence of settings edits and currency switches from the
\* defaults, time > 0, the three markups are >= 0, min_price > 0 and
\* max_price >= min_price.
C31_SettingsInvariant ==
    /\ SETTINGS.time > 0
    /\ SETTINGS.first_markup >= 0 /\ SETTINGS.second_markup >= 0
    /\ SETTINGS.fixed_markup >= 0
    /\ SETTINGS.min_price > 0
    /\ SETTINGS.max_price >= SETTINGS.min_price

\* the lower and the upper bound an item dict holds, under the key the edit
\* handlers write or under the key the wizard writes
StoredMin(d) == IF "min" \in d.has THEN d.min ELSE d.min_price
StoredMax(d) == IF "max" \in d.has THEN d.max ELSE d.max_price

\* C32: in every reachable state of the store every tracked item has
\* min > 0 and max >= min.
C32_ItemBoundsInvariant ==
    \A id \in Keys(LOTS) :
        /\ StoredMin(LOTS[id]) > 0
        /\ StoredMax(LOTS[id]) >= StoredMin(LOTS[id])

\* the rates the cache holds
CachedRates ==
    {CACHE[i].value : i \in {j \in 1..Len(CACHE) : CACHE[j].key[1] = "currency_rate"}}

\* C33: every rate get_currency_rate has returned is > 0 and every rate the
\* cache holds is > 0, whatever number a successful response of the primary
\* or of the secondary source carried.
C33_RatePositive ==
    /\ io.done => io.rate > 0
    /\ \A r \in CachedRates : r > 0

\* the currencies whose rate a conversion from steam_currency into the
\* account currency needs: neither for equal currencies, none for USD
RequiredRates(S, steam_currency) ==
    IF steam_currency = S.currency THEN {} ELSE {steam_currency, S.currency} \ {"USD"}

-----------------------------------------------------------------------------
(* A single-item refresh of the one item of the store while the operator   *)
(* edits the item's bounds.  io counts the edits.                          *)

InitEdit ==
    /\ LOTS = [id \in {"1"} |-> StoredLot(TRUE, "730", "USD", 1000, 5000000)]
    /\ order = <<"1">>
    /\ FILE = [lots |-> LOTS, keys |-> <<"1">>, ok |-> TRUE]
    /\ SETTINGS = StoreSettings
    /\ now = 24 * Hour
    /\ InitTasks
    /\ remote = [price |-> [id \in AllIds |-> 5000], save_lot |-> TRUE,
                 steam |-> {None, 10000}]
    /\ CACHE = <<>>
    /\ io = [edits |-> 0]

\* edited, key "min" or "max", for item "1": LOTS[n][key] = float(text); save_lots()
edited_bound(key, value) ==
    /\ io.edits < MaxEdits
    /\ "1" \in Keys(LOTS)
    /\ LOTS' = [LOTS EXCEPT !["1"] = [@ EXCEPT ![key] = value, !.has = @ \cup {key}]]
    /\ \E ok \in BOOLEAN : FILE' = Persist(ok, LOTS', order)
    /\ io' = [edits |-> io.edits + 1]
    /\ UNCHANGED <<order, SETTINGS, now, sched, lot_last_check, un, sy, remote,
                   WIZARD_STATES, ops, CACHE>>

NextEdit ==
    \/ update_single_lot("1")
    \/ UsFinish
    \/ SyFetch("single")
    \/ SyCalc("single")
    \/ SyFields("single")
    \/ SyCompare("single")
    \/ SySave("single")
    \/ SyRecord("single")
    \/ \E key \in {"min", "max"}, value \in EditValues : edited_bound(key, value)

SpecEdit == InitEdit /\ [][NextEdit]_vars

\* C35: every price a sync hands to save_lot is > 0.
C35_NoNonPositiveWrite ==
    \A t \in Threads : sy[t].pc = "save" => sy[t].new_price > 0

-----------------------------------------------------------------------------
(* init loading a file of one record that holds any part of an item's      *)
(* fields, with or without the old key steam_app_id.  io holds whether     *)
(* init has run, the record's steam_app_id (None without one) and the      *)
(* record as the file had it.                                              *)

\* a record with every field set to a value that is no default
FullRecord ==
    [NoLot EXCEPT !.has = StoreFields, !.on = TRUE, !.steam_id = "570",
                  !.steam_currency = "USD", !.min = 2000, !.max = 3000,
                  !.last_steam_price = 7000, !.last_price = 8000, !.last_update = 9000]

\* the slots of the fields a record does not hold are empty
Only(d, has) ==
    [NoLot EXCEPT !.has = has,
                  !.on = IF "on" \in has THEN d.on ELSE FALSE,
                  !.steam_id = IF "steam_id" \in has THEN d.steam_id ELSE "",
                  !.steam_currency = IF "steam_currency" \in has THEN d.steam_currency ELSE "",
                  !.min = IF "min" \in has THEN d.min ELSE 0,
                  !.max = IF "max" \in has THEN d.max ELSE 0,
                  !.last_steam_price = IF "last_steam_price" \in has
                                       THEN d.last_steam_price ELSE 0,
                  !.last_price = IF "last_price" \in has THEN d.last_price ELSE 0,
                  !.last_update = IF "last_update" \in has THEN d.last_update ELSE 0]

AppIds == {None, 440}

\* str(lot_data["steam_app_id"])
AppIdStr(n) == IF n = 440 THEN "440" ELSE "0"

\* init's loop body for one loaded record: steam_id from steam_app_id, then
\* the defaults for the keys the record does not hold
Normalized(d, app, S) ==
    LET has == d.has
        steam_id == IF "steam_id" \in has THEN d.steam_id
                    ELSE IF "steam_app_id" \in has THEN AppIdStr(app)
                    ELSE "730"
    IN  [d EXCEPT !.has = has \cup {"steam_app_id", "steam_id", "min", "max",
                                    "last_steam_price", "last_price", "last_update",
                                    "steam_currency"},
                  !.steam_id = steam_id,
                  !.min = IF "min" \in has THEN d.min ELSE S.min_price,
                  !.max = IF "max" \in has THEN d.max ELSE S.max_price,
                  !.last_steam_price = IF "last_steam_price" \in has
                                       THEN d.last_steam_price ELSE 0,
                  !.last_price = IF "last_price" \in has THEN d.last_price ELSE 0,
                  !.last_update = IF "last_update" \in has THEN d.last_update ELSE 0,
                  !.steam_currency = IF "steam_currency" \in has THEN d.steam_currency
                                     ELSE "UAH"]

InitLoad ==
    /\ \E has \in SUBSET StoreFields, app \in AppIds :
          /\ FILE = [lots |-> [id \in {"1"} |->
                                  Only(FullRecord,
                                       IF app = None THEN has
                                       ELSE has \cup {"steam_app_id"})],
                     keys |-> <<"1">>, ok |-> TRUE]
          /\ io = [done |-> FALSE, app |-> app, loaded |-> FILE.lots]
    /\ LOTS = [id \in {} |-> NoLot]
    /\ order = <<>>
    /\ SETTINGS = StoreSettings
    /\ now = 24 * Hour
    /\ InitTasks
    /\ remote = [price |-> [id \in AllIds |-> 5000], save_lot |-> TRUE,
                 steam |-> {None, 0, 10000}]
    /\ CACHE = <<>>

\* init: LOTS = loaded_lots, the normalization of every record, save_lots()
init_load ==
    /\ ~io.done
    /\ LOTS' = [id \in Keys(FILE.lots) |-> Normalized(FILE.lots[id], io.app, SETTINGS)]
    /\ order' = FILE.keys
    /\ \E ok \in BOOLEAN : FILE' = Persist(ok, LOTS', order')
    /\ io' = [io EXCEPT !.done = TRUE]
    /\ UNCHANGED <<SETTINGS, now, sched, lot_last_check, un, sy, remote,
                   WIZARD_STATES, ops, CACHE>>

NextLoad == init_load

SpecLoad == InitLoad /\ [][NextLoad]_vars

\* C36: after init has loaded the file, every record holds every field of a
\* tracked item (steam_id, steam_currency, min, max, on, last_steam_price,
\* last_price, last_update): the value of the file where the file had one,
\* else a default (min and max from the settings); and the file, when the
\* write succeeded, holds the normalized items.
C36_LoadNormalized ==
    io.done =>
        /\ \A id \in Keys(LOTS) :
              /\ StoreFields \subseteq LOTS[id].has
              /\ LOTS[id].min = IF "min" \in io.loaded[id].has
                                THEN io.loaded[id].min ELSE SETTINGS.min_price
              /\ LOTS[id].max = IF "max" \in io.loaded[id].has
                                THEN io.loaded[id].max ELSE SETTINGS.max_price
        /\ Keys(LOTS) = Keys(io.loaded)
        /\ FILE.ok => FILE.lots = LOTS

-----------------------------------------------------------------------------
(* The cache's sets, step by step (SpecCache).                             *)

\* the entries of c under keys other than those of ks
OtherEntries(c, ks) == {c[i] : i \in {j \in 1..Len(c) : c[j].key \notin ks}}

\* the keys of the entries of c with the least timestamp
OldestKeys(c) ==
    {c[i].key : i \in {j \in 1..Len(c) : \A m \in 1..Len(c) : c[j].timestamp <= c[m].timestamp}}

\* C37: a set of key k into a cache that holds max_size entries takes out
\* exactly one entry, one with the oldest timestamp, before k is stored; a
\* set into a cache of fewer entries takes out none.
C37_EvictionChoice ==
    [][io'.set.done =>
         LET k == io'.set.key
         IN  /\ k \in CacheKeys(CACHE')
             /\ IF Len(CACHE) = SmallCacheSize
                THEN \E o \in OldestKeys(CACHE) :
                        /\ CacheKeys(CACHE') = (CacheKeys(CACHE) \ {o}) \cup {k}
                        /\ OtherEntries(CACHE', {k}) = OtherEntries(CACHE, {o, k})
                ELSE /\ CacheKeys(CACHE') = CacheKeys(CACHE) \cup {k}
                     /\ OtherEntries(CACHE', {k}) = OtherEntries(CACHE, {k})]_vars

\* a set has just filled the cache again after taking out another, older key
C37_Witness ==
    /\ io.set.done
    /\ Len(CACHE) = SmallCacheSize
    /\ \E k \in CacheTestKeys \ {io.set.key} :
          /\ io.stored[k].out = "evicted"
          /\ io.stored[k].time < io.stored[io.set.key].time

\* C38: whatever sets, gets, clears by pattern and clears of expired entries
\* were made, the cache holds at most max_size entries.
C38_SizeBound == Len(CACHE) <= SmallCacheSize

\* a full cache read by a get, after a set into the full cache took a key out
C38_Witness ==
    /\ io.got.done
    /\ Len(CACHE) = SmallCacheSize
    /\ \E k \in CacheTestKeys : io.stored[k].out = "evicted"

\* C40: a set of a key the cache already holds leaves the entry of every
\* other key as it was, also when the cache holds max_size entries.
C40_OverwriteFrame ==
    [][(io'.set.done /\ io'.set.key \in CacheKeys(CACHE)) =>
         OtherEntries(CACHE', {io'.set.key}) = OtherEntries(CACHE, {io'.set.key})]_vars

-----------------------------------------------------------------------------
(* refresh_currency_rates and its thread.  The cache starts with any of    *)
(* the four rates, fresh or a quarter of an hour old, and with or without  *)
(* a catalog price.  io holds the thread's position, the count             *)
(* clear_currency_cache returned, the statement that raised and the        *)
(* message sent to the operator.  The name usd_rate_cache is bound nowhere *)
(* in the module, so the assignment to it raises NameError and the         *)
(* statements after it are not reached; CACHE.keys() raises                *)
(* AttributeError, which the inner try swallows.                           *)

RefreshCurrencies == <<"UAH", "RUB", "KZT", "EUR">>

InitRefresh ==
    /\ StoreAtRest
    /\ SETTINGS = StoreSettings
    /\ now = 24 * Hour
    /\ \E held \in SUBSET {"UAH", "RUB", "KZT", "EUR"}, age \in {0, RATE_FRESH},
          priced \in BOOLEAN :
          CACHE = [i \in 1..Len(SelectSeq(RefreshCurrencies, LAMBDA c : c \in held)) |->
                      [key |-> RateKey(SelectSeq(RefreshCurrencies, LAMBDA c : c \in held)[i]),
                       value |-> StaticRate(SelectSeq(RefreshCurrencies,
                                                      LAMBDA c : c \in held)[i]),
                       timestamp |-> now - age]]
                  \o (IF priced THEN <<[key |-> SteamKey("730", "USD"), value |-> 5000,
                                        timestamp |-> now - age]>>
                      ELSE <<>>)
    /\ io = [pc |-> "idle", cleared_count |-> 0, raised |-> "no", report |-> "none"]

\* the handler: the callback is answered and the thread started
refresh_currency_rates ==
    /\ io.pc = "idle"
    /\ io' = [io EXCEPT !.pc = "clear"]
    /\ UNCHANGED <<LOTS, order, FILE, SETTINGS, now, sched, lot_last_check, un, sy, remote,
                   WIZARD_STATES, ops, CACHE>>

\* cleared_count = clear_currency_cache()
RefreshClear ==
    /\ io.pc = "clear"
    /\ CACHE' = CacheClearByPattern(CACHE, "currency_rate")
    /\ io' = [io EXCEPT !.pc = "keys", !.cleared_count = Len(CACHE) - Len(CACHE')]
    /\ UNCHANGED <<LOTS, order, FILE, SETTINGS, now, sched, lot_last_check, un, sy, remote,
                   WIZARD_STATES, ops>>

\* the inner try: CACHE.keys() raises, except Exception: pass
RefreshKeys ==
    /\ io.pc = "keys"
    /\ io' = [io EXCEPT !.pc = "usd"]
    /\ UNCHANGED <<LOTS, order, FILE, SETTINGS, now, sched, lot_last_check, un, sy, remote,
                   WIZARD_STATES, ops, CACHE>>

\* usd_rate_cache["timestamp"] = 0 raises; the outer handler sends the error message
RefreshUsd ==
    /\ io.pc = "usd"
    /\ io' = [io EXCEPT !.pc = "end", !.raised = "usd_rate_cache", !.report = "error"]
    /\ UNCHANGED <<LOTS, order, FILE, SETTINGS, now, sched, lot_last_check, un, sy, remote,
                   WIZARD_STATES, ops, CACHE>>

NextRefresh ==
    \/ refresh_currency_rates
    \/ RefreshClear
    \/ RefreshKeys
    \/ RefreshUsd

SpecRefresh == InitRefresh /\ [][NextRefresh]_vars

\* C39: the refresh thread ends with the four rates reported to the
\* operator, or else with the error message after get_currency_rate raised.
C39_RefreshReports ==
    io.pc = "end" =>
        \/ io.report = "rates"
        \/ io.report = "error" /\ io.raised = "get_currency_rate"

====
